---- MODULE Spec2Model ----
(***************************************************************************)
(* State-machine model of the moisture-monitoring fleet:                   *)
(*   - the orchestrator (src/orchestrator): agent registration with        *)
(*     bootstrap tokens, agent-token endpoints, config versions, alerts;   *)
(*   - the Pi agent (src/pi-agent): the local SQLite buffer, the sync job, *)
(*     the config manager.                                                 *)
(* Every subsystem has its own specification over the shared variables;    *)
(* the variables of the other subsystems stay at their initial values.     *)
(***************************************************************************)
EXTENDS Integers, Sequences, FiniteSets, TLC

(***************************************************************************)
(* Bounds of the model                                                     *)
(***************************************************************************)
NumRegRequests == 3      \* concurrent POST /agents/register requests
MaxTime == 2             \* orchestrator clock runs 0..MaxTime (hours)

AgentIds == {"pi-01", "pi-02"}
TokenIds == {"T1"}                       \* secrets generate_token can return
RegRequests == 1..NumRegRequests

\* SQL NULL / Python None of a nullable column (no modelled column holds -1
\* where it is nullable).
NULL == -1

VARIABLES
    \* orchestrator database and clock
    agents,      \* table public.agents: agent_id -> row (never deleted)
    bootstrap,   \* table public.bootstrap_tokens: token -> row
    now,         \* orchestrator wall clock, datetime.now(timezone.utc)
    configs,     \* table public.agent_configs, in insertion order
    rules,       \* table public.alert_rules, in insertion order
    alerts,      \* table public.active_alerts, in insertion order (id = index)
    resp,        \* the last request answered by the orchestrator: status code,
                 \* authenticated agent, agent id of the request
    current_version,  \* ConfigManager.current_version of pi-01's agent
    config_file,      \* content of the agent's local config file
    backup_file,      \* content of the .yaml.backup file, "" while there is none
    cfgPC,            \* the config job: "idle", or "update" after has_update
    applyResult,      \* history: how the last apply_config_update call ended
    checks,      \* AlertEngine.check_reading calls, one database session each
    sweeps,      \* AlertEngine.check_agent_offline calls, one session each
    thresholds,  \* the thresholds argument of check_reading (sensor config)
    hist,        \* history: the moisture values given to check_reading so far
    pushes,      \* in-flight PUT /agents/{id}/config requests, one session each
    \* in-flight /agents/register requests (one DB session each)
    regs,
    \* the Pi agent's buffer and sync job
    readings,     \* table readings: set of rows [id, timestamp, synced]
    lastrowid,    \* AUTOINCREMENT sequence: ids are never reused
    clock,        \* agent wall clock, int(time.time())
    syncPC,       \* "idle" | "posting" (POST in flight) | "responded"
    reading_ids,  \* local ids of the batch being uploaded
    response,     \* status of the HTTP response, NETERR, or NULL
    lastSync,     \* what the last sync_readings call returned or raised
    up,           \* the orchestrator is reachable and accepts uploads
    crashes,      \* crashes so far
    confirmed,    \* history: ids contained in an upload answered with 200
    lastFailed,   \* history: ids of the batch whose upload just failed
    selectedAt,   \* history: lastrowid when the batch in flight was selected
    \* the Pi agent process (PiAgent of pi-01)
    running,      \* PiAgent.running
    lifePC,       \* where PiAgent.run is: "down" | "registering" | "loop" |
                  \* "shutdown"
    agent_token,  \* metadata 'agent_token' of the agent's database, or NoCred
    attempt,      \* the registration request the agent waits for, 0 for none
    inflight,     \* scheduled jobs suspended at the await of their request
    cancelled,    \* in-flight jobs whose task the executor has cancelled
    closed,       \* the resources shut down or closed so far, in order
    outcome,      \* the operation run last and how it ended
    caughtBy,     \* who handled the failure of that run
    \* a call of SyncClient.sync_all_readings
    syncAllPC,    \* "idle" | "calling" (in the loop) | "returned" | "raised"
    total_synced  \* local total_synced of the call

coordVars == <<agents, bootstrap, now>>
cfgVars == <<current_version, config_file, backup_file, cfgPC, applyResult>>
apiVars == <<configs, rules, alerts, resp>>
regVars == <<regs>>
engineVars == <<checks, sweeps, thresholds, hist>>
pushVars == <<pushes>>
syncVars == <<readings, lastrowid, clock, syncPC, reading_ids, response,
              lastSync, up, crashes, confirmed, lastFailed, selectedAt>>

lifeVars == <<running, lifePC, agent_token, attempt, inflight, cancelled,
              closed, outcome, caughtBy>>

runVars == <<syncAllPC, total_synced>>

vars == <<coordVars, apiVars, regVars, engineVars, syncVars, cfgVars, pushVars,
          lifeVars, runVars>>

\* what a step of one subsystem leaves alone
regFrame == <<apiVars, engineVars, syncVars, cfgVars, pushVars, lifeVars, runVars>>
syncFrame == <<coordVars, apiVars, regVars, engineVars, cfgVars, pushVars,
               lifeVars, runVars>>
apiFrame == <<regVars, engineVars, syncVars, cfgVars, pushVars, lifeVars, runVars>>
engineFrame == <<bootstrap, configs, rules, resp, regVars, syncVars, cfgVars,
                 pushVars, lifeVars, runVars>>
cfgFrame == <<coordVars, configs, rules, alerts, regVars, engineVars, syncVars,
              pushVars, lifeVars, runVars>>
pushFrame == <<bootstrap, now, rules, alerts, regVars, engineVars, syncVars,
               cfgVars, lifeVars, runVars>>
lifeFrame == <<coordVars, apiVars, regVars, engineVars, syncVars, cfgVars,
               pushVars, runVars>>
runFrame == <<coordVars, apiVars, regVars, engineVars, cfgVars, pushVars,
              lifeVars>>

(***************************************************************************)
(* Credentials.  A bearer credential is a secret string; the model keeps   *)
(* what kind of secret it is and which one.                                *)
(***************************************************************************)
NoCred == [kind |-> "none", id |-> ""]          \* no Authorization header
BadCred == [kind |-> "bad", id |-> ""]          \* a secret matching nothing
BootstrapCred(t) == [kind |-> "bst", id |-> t]  \* bst_k8s_<random>
AgentCred(a) == [kind |-> "agt", id |-> a]      \* agt_<random> minted for a

\* sha256 + salted sha256_crypt: the stored hash is not the token, and
\* verification succeeds exactly for the token that was hashed.
hash_token(token) == [salted |-> token]
verify_token(plain_token, hashed_token) == hashed_token.salted = plain_token

(***************************************************************************)
(* BootstrapToken                                                          *)
(***************************************************************************)
is_expired(b) == now > b.expires_at

is_valid_unlimited(b) == ~is_expired(b)

\* "if self.max_uses and ...": None and 0 are both falsy
is_valid(b) ==
    IF is_expired(b) THEN FALSE
    ELSE IF (b.max_uses # NULL /\ b.max_uses # 0) /\ b.used_count >= b.max_uses
         THEN FALSE
         ELSE TRUE

\* verify_bootstrap_token scans all rows for the one whose hash verifies.
BootstrapCandidates(cred) ==
    {t \in DOMAIN bootstrap : verify_token(cred, bootstrap[t].token_hash)}

NewAgent(agent_id) ==
    [agent_token_hash |-> hash_token(AgentCred(agent_id)),
     status |-> "active",
     last_heartbeat |-> NULL,
     last_sync_at |-> NULL,
     desired_config_version |-> 1,
     applied_config_version |-> 0,
     agent_metadata |-> NULL]

AgentExists_never(agent_id) == FALSE

AgentExists_active(agent_id) ==
    agent_id \in DOMAIN agents /\ agents[agent_id].status = "active"

\* db.query(Agent).filter_by(agent_id=request.agent_id).first() is not None
AgentExists(agent_id) == agent_id \in DOMAIN agents

\* Extend or overwrite one row of a table held as a function.
Put(table, key, row) ==
    [k \in DOMAIN table \cup {key} |-> IF k = key THEN row ELSE table[k]]

(***************************************************************************)
(* POST /agents/bootstrap-tokens (no authentication in the code)           *)
(***************************************************************************)
\* The entry of the last answered request.
Response(status, agent, path) == [status |-> status, agent |-> agent, path |-> path]

MaxUsesValues == {NULL, 0, 1, 2}
ExpiresInHours == {1, 2}

\* The handler has no credentials parameter: cred, the Authorization header of
\* the request, is not read.
create_bootstrap_token(cred, t, expires_in_hours, max_uses) ==
    /\ t \notin DOMAIN bootstrap
    /\ bootstrap' = Put(bootstrap, t,
                        [token_hash |-> hash_token(BootstrapCred(t)),
                         expires_at |-> now + expires_in_hours,
                         used_count |-> 0,
                         max_uses |-> max_uses])
    /\ resp' = Response(200, "", "")
    /\ UNCHANGED <<agents, now, configs, rules, alerts, apiFrame>>

Tick ==
    /\ now < MaxTime
    /\ now' = now + 1
    /\ UNCHANGED <<agents, bootstrap, regVars, regFrame>>

(***************************************************************************)
(* POST /agents/register, as concurrent requests against the shared        *)
(* database.  Each request has its own SQLAlchemy session:                 *)
(*   "new"      -> verify_bootstrap_token loads the BootstrapToken row     *)
(*   "verified" -> register_agent queries for an existing agent            *)
(*   "checked"  -> register_agent adds the agent, writes used_count from   *)
(*                 the row it loaded, and commits                          *)
(***************************************************************************)
NewReg == [pc |-> "new", cred |-> NoCred, agent_id |-> "",
           bootstrap |-> "", used_count |-> 0, status |-> 0]

verify_bootstrap_token(r, cred, agent_id) ==
    /\ regs[r].pc = "new"
    /\ LET cands == BootstrapCandidates(cred)
           req == [regs[r] EXCEPT !.cred = cred, !.agent_id = agent_id]
       IN IF cands = {}
          THEN regs' = [regs EXCEPT ![r] = [req EXCEPT !.pc = "done", !.status = 401]]
          ELSE LET t == CHOOSE c \in cands : TRUE
               IN IF ~is_valid(bootstrap[t])
                  THEN regs' = [regs EXCEPT ![r] =
                                   [req EXCEPT !.pc = "done", !.bootstrap = t,
                                               !.status = 401]]
                  ELSE regs' = [regs EXCEPT ![r] =
                                   [req EXCEPT !.pc = "verified",
                                               !.bootstrap = t,
                                               !.used_count = bootstrap[t].used_count]]
    /\ UNCHANGED <<coordVars, regFrame>>

register_agent_check(r) ==
    /\ regs[r].pc = "verified"
    /\ IF AgentExists(regs[r].agent_id)
       THEN regs' = [regs EXCEPT ![r].pc = "done", ![r].status = 409]
       ELSE regs' = [regs EXCEPT ![r].pc = "checked"]
    /\ UNCHANGED <<coordVars, regFrame>>

\* The value the session writes to used_count: the loaded attribute plus one.
IncrementedUsedCount(r) == regs[r].used_count + 1

register_agent_commit(r) ==
    /\ regs[r].pc = "checked"
    /\ IF regs[r].agent_id \in DOMAIN agents
       THEN \* INSERT hits the primary key: IntegrityError, rolled back
            /\ regs' = [regs EXCEPT ![r].pc = "done", ![r].status = 500]
            /\ UNCHANGED coordVars
       ELSE /\ agents' = Put(agents, regs[r].agent_id, NewAgent(regs[r].agent_id))
            /\ bootstrap' = [bootstrap EXCEPT
                                ![regs[r].bootstrap].used_count = IncrementedUsedCount(r)]
            /\ regs' = [regs EXCEPT ![r].pc = "done", ![r].status = 200]
            /\ UNCHANGED now
    /\ UNCHANGED regFrame

RegCreds == {BadCred} \cup {BootstrapCred(t) : t \in TokenIds}

InitCoord ==
    /\ agents = << >>
    /\ bootstrap = << >>
    /\ now = 0

InitRegs == regs = [r \in RegRequests |-> NewReg]

InitApi ==
    /\ configs = << >>
    /\ rules = << >>
    /\ alerts = << >>
    /\ resp = [status |-> 0, agent |-> "", path |-> ""]

NextReg ==
    \/ \E t \in TokenIds, h \in ExpiresInHours, m \in MaxUsesValues :
          create_bootstrap_token(NoCred, t, h, m)
    \/ Tick
    \/ \E r \in RegRequests, c \in RegCreds, a \in AgentIds :
          verify_bootstrap_token(r, c, a)
    \/ \E r \in RegRequests : register_agent_check(r)
    \/ \E r \in RegRequests : register_agent_commit(r)


(***************************************************************************)
(* Orchestrator endpoints, one request handled at a time.  cred is the     *)
(* Authorization header of the request, agent_id the id in the path.       *)
(***************************************************************************)
MaxConfigs == 2      \* rows of agent_configs
MaxRules == 1        \* rows of alert_rules

ReportVersions == (-1)..2               \* the query parameter version: int
CoordPayloads == {"cfgA"}              \* request.config of PUT .../config
HealthyInflux == {TRUE, FALSE}         \* does write_readings return or raise
UploadBatches == {<< >>, <<[sensor_channel |-> 0, moisture_percent |-> 25]>>}
\* a rule for pi-02, which is registered or not when the request arrives
AlertRuleCreates ==
    {[agent_id |-> "pi-02", sensor_channel |-> 0, dry_threshold |-> 30,
      wet_threshold |-> 85, enabled |-> TRUE]}

verify_agent_token_active(cred) ==
    LET cands == {a \in DOMAIN agents :
                     /\ verify_token(cred, agents[a].agent_token_hash)
                     /\ agents[a].status = "active"}
    IN IF cred = NoCred THEN [status |-> 403, agent |-> ""]
       ELSE IF cands = {} THEN [status |-> 401, agent |-> ""]
       ELSE [status |-> 200, agent |-> CHOOSE a \in cands : TRUE]

\* HTTPBearer rejects a request without Authorization header before the
\* handler runs; verify_agent_token scans all agents for a matching hash.
verify_agent_token(cred) ==
    LET cands == {a \in DOMAIN agents :
                     verify_token(cred, agents[a].agent_token_hash)}
    IN IF cred = NoCred THEN [status |-> 403, agent |-> ""]
       ELSE IF cands = {} THEN [status |-> 401, agent |-> ""]
       ELSE [status |-> 200, agent |-> CHOOSE a \in cands : TRUE]

\* The agent the dependency hands to the handler, "" when it raises.
Caller(cred) == verify_agent_token(cred).agent

AgentIdMismatch_never(agent, agent_id) == FALSE

\* "if agent.agent_id != agent_id: raise HTTPException(status_code=403)"
AgentIdMismatch(agent, agent_id) == agent # agent_id

\* What the dependency and the id check answer before the handler body runs:
\* 200 stands for "go on".
Admit(cred, agent_id) ==
    LET auth == verify_agent_token(cred)
    IN IF auth.status # 200 THEN auth.status
       ELSE IF AgentIdMismatch(auth.agent, agent_id) THEN 403
       ELSE 200

\* POST /agents/register handled without interleaving.
register_agent(cred, agent_id) ==
    /\ LET cands == BootstrapCandidates(cred)
       IN IF cred = NoCred
          THEN resp' = Response(403, "", agent_id) /\ UNCHANGED <<agents, bootstrap>>
          ELSE IF cands = {} \/ ~is_valid(bootstrap[CHOOSE c \in cands : TRUE])
          THEN resp' = Response(401, "", agent_id) /\ UNCHANGED <<agents, bootstrap>>
          ELSE IF AgentExists(agent_id)
          THEN resp' = Response(409, "", agent_id) /\ UNCHANGED <<agents, bootstrap>>
          ELSE LET t == CHOOSE c \in cands : TRUE
               IN /\ agents' = Put(agents, agent_id, NewAgent(agent_id))
                  /\ bootstrap' = [bootstrap EXCEPT
                                      ![t].used_count = bootstrap[t].used_count + 1]
                  /\ resp' = Response(200, "", agent_id)
    /\ UNCHANGED <<now, configs, rules, alerts, apiFrame>>

\* POST /agents/{agent_id}/heartbeat
agent_heartbeat(cred, agent_id) ==
    /\ LET admit == Admit(cred, agent_id)
       IN IF admit # 200
          THEN resp' = Response(admit, Caller(cred), agent_id) /\ UNCHANGED agents
          ELSE /\ agents' = [agents EXCEPT ![agent_id].last_heartbeat = now]
               /\ resp' = Response(200, Caller(cred), agent_id)
    /\ UNCHANGED <<bootstrap, now, configs, rules, alerts, apiFrame>>

\* DELETE /agents/{agent_id}: no credentials parameter
decommission_agent(cred, agent_id) ==
    /\ IF agent_id \notin DOMAIN agents
       THEN resp' = Response(404, "", agent_id) /\ UNCHANGED agents
       ELSE /\ agents' = [agents EXCEPT ![agent_id].status = "decommissioned"]
            /\ resp' = Response(200, "", agent_id)
    /\ UNCHANGED <<bootstrap, now, configs, rules, alerts, apiFrame>>

\* The first row of agent_configs for (agent_id, version), 0 if there is none.
ConfigRow(agent_id, version) ==
    LET ids == {i \in 1..Len(configs) : /\ configs[i].agent_id = agent_id
                                        /\ configs[i].version = version}
    IN IF ids = {} THEN 0 ELSE CHOOSE i \in ids : \A j \in ids : i <= j

ConfigResponse_strict(agent_id) ==
    LET agent == agents[agent_id]
        latest_config == ConfigRow(agent_id, agent.desired_config_version)
    IN IF agent.applied_config_version = agent.desired_config_version
       THEN [status |-> 304, version |-> NULL, config |-> ""]
       ELSE IF latest_config = 0
       THEN [status |-> 200, version |-> 1, config |-> "empty"]
       ELSE [status |-> 200, version |-> configs[latest_config].version,
             config |-> configs[latest_config].config_data]

\* The answer of GET /agents/{agent_id}/config for the authenticated agent.
ConfigResponse(agent_id) ==
    LET agent == agents[agent_id]
        latest_config == ConfigRow(agent_id, agent.desired_config_version)
    IN IF agent.applied_config_version >= agent.desired_config_version
       THEN [status |-> 304, version |-> NULL, config |-> ""]
       ELSE IF latest_config = 0
       THEN [status |-> 200, version |-> 1, config |-> "empty"]
       ELSE [status |-> 200, version |-> configs[latest_config].version,
             config |-> configs[latest_config].config_data]

\* GET /agents/{agent_id}/config
get_agent_config(cred, agent_id) ==
    /\ LET admit == Admit(cred, agent_id)
       IN IF admit # 200
          THEN resp' = Response(admit, Caller(cred), agent_id)
          ELSE resp' = Response(ConfigResponse(agent_id).status, Caller(cred), agent_id)
    /\ UNCHANGED <<coordVars, configs, rules, alerts, apiFrame>>

NewVersion_one(agent_id) == 1

\* "current.version + 1 if current else 1", current the row of highest version
NewVersion(agent_id) ==
    LET versions == {configs[i].version : i \in
                        {j \in 1..Len(configs) : configs[j].agent_id = agent_id}}
    IN IF versions = {} THEN 1
       ELSE (CHOOSE v \in versions : \A w \in versions : w <= v) + 1

\* PUT /agents/{agent_id}/config: no credentials parameter
update_agent_config(cred, agent_id, config) ==
    /\ Len(configs) < MaxConfigs
    /\ IF agent_id \notin DOMAIN agents
       THEN resp' = Response(404, "", agent_id) /\ UNCHANGED <<agents, configs>>
       ELSE LET new_version == NewVersion(agent_id)
            IN /\ configs' = Append(configs, [agent_id |-> agent_id,
                                              version |-> new_version,
                                              config_data |-> config,
                                              applied_at |-> NULL])
               /\ agents' = [agents EXCEPT
                                ![agent_id].desired_config_version = new_version]
               /\ resp' = Response(200, "", agent_id)
    /\ UNCHANGED <<bootstrap, now, rules, alerts, apiFrame>>

\* POST /agents/{agent_id}/config/applied?version=N
report_config_applied(cred, agent_id, version) ==
    /\ LET admit == Admit(cred, agent_id)
           config == ConfigRow(agent_id, version)
       IN IF admit # 200
          THEN resp' = Response(admit, Caller(cred), agent_id) /\ UNCHANGED <<agents, configs>>
          ELSE /\ agents' = [agents EXCEPT
                                ![agent_id].applied_config_version = version]
               /\ configs' = IF config # 0
                             THEN [configs EXCEPT ![config].applied_at = now]
                             ELSE configs
               /\ resp' = Response(200, Caller(cred), agent_id)
    /\ UNCHANGED <<bootstrap, now, rules, alerts, apiFrame>>

\* POST /agents/{agent_id}/readings.  influx_writer is set at startup, so the
\* 503 branch is not reachable after startup; the InfluxDB write either
\* returns (influx_ok) or raises.
upload_readings(cred, agent_id, batch, influx_ok) ==
    /\ LET admit == Admit(cred, agent_id)
       IN IF admit # 200
          THEN resp' = Response(admit, Caller(cred), agent_id) /\ UNCHANGED agents
          ELSE IF batch = << >>
          THEN resp' = Response(200, Caller(cred), agent_id) /\ UNCHANGED agents
          ELSE IF influx_ok
          THEN /\ agents' = [agents EXCEPT ![agent_id].last_sync_at = now]
               /\ resp' = Response(200, Caller(cred), agent_id)
          ELSE resp' = Response(500, Caller(cred), agent_id) /\ UNCHANGED agents
    /\ UNCHANGED <<bootstrap, now, configs, rules, alerts, apiFrame>>

\* POST /agents/{agent_id}/health.  agent_metadata holds health.reported_at.
\* A non-empty agent_metadata is changed in place, which the plain JSON
\* column does not track: the commit writes nothing.
report_health(cred, agent_id) ==
    /\ LET admit == Admit(cred, agent_id)
       IN IF admit # 200
          THEN resp' = Response(admit, Caller(cred), agent_id) /\ UNCHANGED agents
          ELSE /\ agents' = IF agents[agent_id].agent_metadata # NULL
                            THEN agents
                            ELSE [agents EXCEPT ![agent_id].agent_metadata = now]
               /\ resp' = Response(200, Caller(cred), agent_id)
    /\ UNCHANGED <<bootstrap, now, configs, rules, alerts, apiFrame>>

\* POST /alerts/{alert_id}/acknowledge: no credentials parameter
acknowledge_alert(cred, alert_id) ==
    /\ IF alert_id \notin 1..Len(alerts)
       THEN resp' = Response(404, "", "") /\ UNCHANGED alerts
       ELSE /\ alerts' = [alerts EXCEPT ![alert_id].acknowledged = TRUE]
            /\ resp' = Response(200, "", "")
    /\ UNCHANGED <<coordVars, configs, rules, apiFrame>>

\* POST /alerts/rules: no credentials parameter; agent_id is a foreign key
create_alert_rule(cred, request) ==
    /\ Len(rules) < MaxRules
    /\ IF request.agent_id \notin DOMAIN agents
       THEN resp' = Response(500, "", request.agent_id) /\ UNCHANGED rules
       ELSE rules' = Append(rules, request) /\ resp' = Response(200, "", request.agent_id)
    /\ UNCHANGED <<coordVars, configs, alerts, apiFrame>>

\* The database after create_bootstrap_token(T1, 2 hours, max_uses 2) and the
\* registration of pi-01.
InitFleet ==
    /\ bootstrap = [t \in {"T1"} |-> [token_hash |-> hash_token(BootstrapCred("T1")),
                                     expires_at |-> 2,
                                     used_count |-> 1,
                                     max_uses |-> 2]]
    /\ agents = [a \in {"pi-01"} |-> NewAgent(a)]
    /\ now = 0

\* Authorization headers of the requests: none, the bootstrap token (which is
\* no agent token), the agent token of pi-01 (which is no bootstrap token).
\* The holder of pi-02's token sends nothing: the handlers treat all agent
\* ids alike, and pi-01's token is presented on both paths.
Creds == {NoCred, BootstrapCred("T1"), AgentCred("pi-01")}

\* Registration requests handled one at a time, beside token creation,
\* decommissioning and the clock.
RegSeqCreds == {NoCred, BadCred} \cup {BootstrapCred(t) : t \in TokenIds}

NextRegSeq ==
    \/ \E t \in TokenIds, h \in ExpiresInHours, m \in MaxUsesValues :
          create_bootstrap_token(NoCred, t, h, m)
    \/ Tick
    \/ \E c \in RegSeqCreds, a \in AgentIds : register_agent(c, a)
    \/ \E a \in AgentIds : decommission_agent(NoCred, a)

NextCoord ==
    \/ \E c \in Creds, a \in AgentIds : register_agent(c, a)
    \/ \E c \in Creds, a \in AgentIds : agent_heartbeat(c, a)
    \/ \E c \in Creds, a \in AgentIds : get_agent_config(c, a)
    \/ \E c \in Creds, a \in AgentIds, v \in ReportVersions :
          report_config_applied(c, a, v)
    \/ \E c \in Creds, a \in AgentIds, b \in UploadBatches, ok \in HealthyInflux :
          upload_readings(c, a, b, ok)
    \/ \E c \in Creds, a \in AgentIds : report_health(c, a)
    \/ \E a \in AgentIds, p \in CoordPayloads : update_agent_config(NoCred, a, p)
    \/ \E a \in AgentIds : decommission_agent(NoCred, a)
    \/ \E i \in 1..2 : acknowledge_alert(NoCred, i)
    \/ \E r \in AlertRuleCreates : create_alert_rule(NoCred, r)


(***************************************************************************)
(* PUT /agents/{agent_id}/config as concurrent requests, each with its own *)
(* session: the queries of one request (the agent, the row of highest      *)
(* version) and, later, its insert and update with the commit.  The table  *)
(* agent_configs has no unique constraint on (agent_id, version).          *)
(***************************************************************************)
NumPushes == 3       \* concurrent PUT /agents/{id}/config requests

PushIds == 1..NumPushes
PushPayloads == {"cfgA", "cfgB"}

NewPush == [pc |-> "new", agent_id |-> "", config |-> "", new_version |-> 0,
            status |-> 0]

update_agent_config_query(p, agent_id, config) ==
    /\ pushes[p].pc = "new"
    /\ IF agent_id \notin DOMAIN agents
       THEN pushes' = [pushes EXCEPT ![p] =
                          [pc |-> "done", agent_id |-> agent_id,
                           config |-> config, new_version |-> 0, status |-> 404]]
       ELSE pushes' = [pushes EXCEPT ![p] =
                          [pc |-> "queried", agent_id |-> agent_id,
                           config |-> config,
                           new_version |-> NewVersion(agent_id), status |-> 0]]
    /\ UNCHANGED <<agents, configs, resp, pushFrame>>

update_agent_config_commit(p) ==
    /\ pushes[p].pc = "queried"
    /\ configs' = Append(configs, [agent_id |-> pushes[p].agent_id,
                                   version |-> pushes[p].new_version,
                                   config_data |-> pushes[p].config,
                                   applied_at |-> NULL])
    /\ agents' = [agents EXCEPT ![pushes[p].agent_id].desired_config_version =
                                   pushes[p].new_version]
    /\ pushes' = [pushes EXCEPT ![p].pc = "done", ![p].status = 200]
    /\ resp' = Response(200, "", pushes[p].agent_id)
    /\ UNCHANGED pushFrame

InitPushes == pushes = [p \in PushIds |-> NewPush]

NextPushConc ==
    \/ \E p \in PushIds, a \in AgentIds, c \in PushPayloads :
          update_agent_config_query(p, a, c)
    \/ \E p \in PushIds : update_agent_config_commit(p)


(***************************************************************************)
(* The alert engine (alerts.py).  A row of active_alerts is unresolved     *)
(* while resolved_at is NULL.                                              *)
(***************************************************************************)
NumChecks == 2        \* concurrent check_reading calls
NumSweeps == 2        \* concurrent check_agent_offline calls
MaxHist == 4          \* check_reading calls of one sequential execution
OfflineTimeout == 1   \* timeout_minutes (10 in the code), in clock units

CheckIds == 1..NumChecks
SweepIds == 1..NumSweeps

\* thresholds.get('dry_percent', 30) etc.: the defaults of check_reading
DefaultThresholds == [dry_percent |-> 30, wet_percent |-> 85, hysteresis |-> 5]
\* the defaults; bands that meet at 50; malformed thresholds with dry > wet
ThresholdSets ==
    {DefaultThresholds,
     [dry_percent |-> 40, wet_percent |-> 60, hysteresis |-> 10],
     [dry_percent |-> 60, wet_percent |-> 40, hysteresis |-> 5]}
\* readings below, on the edges of, inside and above the two bands
Moistures == {25, 30, 32, 35, 36, 50, 80, 82, 85, 90}

trigger_dry(moisture_percent, th) == moisture_percent < th.dry_percent
trigger_wet(moisture_percent, th) == moisture_percent > th.wet_percent

resolve_dry_no_hysteresis(moisture_percent, th) ==
    moisture_percent > th.dry_percent

resolve_dry(moisture_percent, th) ==
    moisture_percent > th.dry_percent + th.hysteresis

resolve_wet_no_hysteresis(moisture_percent, th) ==
    moisture_percent < th.wet_percent

resolve_wet(moisture_percent, th) ==
    moisture_percent < th.wet_percent - th.hysteresis

\* ids of the unresolved rows for (agent_id, sensor_channel)
ActiveAlerts(table, agent_id, sensor_channel) ==
    {i \in 1..Len(table) : /\ table[i].agent_id = agent_id
                           /\ table[i].sensor_channel = sensor_channel
                           /\ table[i].resolved_at = NULL}

\* ids of the unresolved agent_offline rows of agent_id
OfflineAlerts(table, agent_id) ==
    {i \in 1..Len(table) : /\ table[i].agent_id = agent_id
                           /\ table[i].alert_type = "agent_offline"
                           /\ table[i].resolved_at = NULL}

\* What .first() can return: 0 for None, else any matching row (the query
\* has no ORDER BY).
First(ids) == IF ids = {} THEN {0} ELSE ids

create_alert(table, agent_id, sensor_channel, alert_type, moisture_percent, threshold) ==
    Append(table, [agent_id |-> agent_id,
                   sensor_channel |-> sensor_channel,
                   alert_type |-> alert_type,
                   triggered_at |-> now,
                   resolved_at |-> NULL,
                   acknowledged |-> FALSE,
                   moisture_percent |-> moisture_percent,
                   threshold |-> threshold])

resolve_alert(table, alert) == [table EXCEPT ![alert].resolved_at = now]

CheckReading_wet_first(table, active_alert, agent_id, sensor_channel, moisture_percent, th) ==
    IF trigger_wet(moisture_percent, th) /\ active_alert = 0
    THEN create_alert(table, agent_id, sensor_channel, "too_wet",
                      moisture_percent, th.wet_percent)
    ELSE IF trigger_dry(moisture_percent, th) /\ active_alert = 0
    THEN create_alert(table, agent_id, sensor_channel, "too_dry",
                      moisture_percent, th.dry_percent)
    ELSE IF active_alert # 0
    THEN IF /\ table[active_alert].alert_type = "too_dry"
            /\ resolve_dry(moisture_percent, th)
         THEN resolve_alert(table, active_alert)
         ELSE IF /\ table[active_alert].alert_type = "too_wet"
                 /\ resolve_wet(moisture_percent, th)
         THEN resolve_alert(table, active_alert)
         ELSE table
    ELSE table

CheckReading_resolve_then_create(table, active_alert, agent_id, sensor_channel, moisture_percent, th) ==
    LET resolves == /\ active_alert # 0
                    /\ \/ /\ table[active_alert].alert_type = "too_dry"
                          /\ resolve_dry(moisture_percent, th)
                       \/ /\ table[active_alert].alert_type = "too_wet"
                          /\ resolve_wet(moisture_percent, th)
        base == IF resolves THEN resolve_alert(table, active_alert) ELSE table
        free == active_alert = 0 \/ resolves
    IN IF trigger_dry(moisture_percent, th) /\ free
       THEN create_alert(base, agent_id, sensor_channel, "too_dry",
                         moisture_percent, th.dry_percent)
       ELSE IF trigger_wet(moisture_percent, th) /\ free
       THEN create_alert(base, agent_id, sensor_channel, "too_wet",
                         moisture_percent, th.wet_percent)
       ELSE base

\* The body of check_reading after the query returned active_alert.
CheckReading(table, active_alert, agent_id, sensor_channel, moisture_percent, th) ==
    IF trigger_dry(moisture_percent, th) /\ active_alert = 0
    THEN create_alert(table, agent_id, sensor_channel, "too_dry",
                      moisture_percent, th.dry_percent)
    ELSE IF trigger_wet(moisture_percent, th) /\ active_alert = 0
    THEN create_alert(table, agent_id, sensor_channel, "too_wet",
                      moisture_percent, th.wet_percent)
    ELSE IF active_alert # 0
    THEN IF /\ table[active_alert].alert_type = "too_dry"
            /\ resolve_dry(moisture_percent, th)
         THEN resolve_alert(table, active_alert)
         ELSE IF /\ table[active_alert].alert_type = "too_wet"
                 /\ resolve_wet(moisture_percent, th)
         THEN resolve_alert(table, active_alert)
         ELSE table
    ELSE table

\* check_reading run without interleaving, for sensor 0 of pi-01
check_reading(moisture_percent) ==
    /\ Len(hist) < MaxHist
    /\ \E active_alert \in First(ActiveAlerts(alerts, "pi-01", 0)) :
          alerts' = CheckReading(alerts, active_alert, "pi-01", 0,
                                 moisture_percent, thresholds)
    /\ hist' = Append(hist, moisture_percent)
    /\ UNCHANGED <<agents, now, checks, sweeps, thresholds, engineFrame>>

\* Concurrent check_reading calls: the query of one call ...
NewCheck == [pc |-> "new", agent_id |-> "", sensor_channel |-> 0,
             moisture_percent |-> 0, active_alert |-> 0]

check_reading_query(c, agent_id, sensor_channel, moisture_percent) ==
    /\ checks[c].pc = "new"
    /\ \E active_alert \in First(ActiveAlerts(alerts, agent_id, sensor_channel)) :
          checks' = [checks EXCEPT ![c] =
                        [pc |-> "queried", agent_id |-> agent_id,
                         sensor_channel |-> sensor_channel,
                         moisture_percent |-> moisture_percent,
                         active_alert |-> active_alert]]
    /\ UNCHANGED <<agents, now, alerts, sweeps, thresholds, hist, engineFrame>>

\* ... and, later, its insert or update with the commit
check_reading_commit(c) ==
    /\ checks[c].pc = "queried"
    /\ alerts' = CheckReading(alerts, checks[c].active_alert, checks[c].agent_id,
                              checks[c].sensor_channel,
                              checks[c].moisture_percent, thresholds)
    /\ checks' = [checks EXCEPT ![c].pc = "done"]
    /\ UNCHANGED <<agents, now, sweeps, thresholds, hist, engineFrame>>

OfflineAgents_null_is_old ==
    {a \in DOMAIN agents : /\ agents[a].status = "active"
                           /\ agents[a].last_heartbeat < now - OfflineTimeout}

\* Agent.status == 'active' and Agent.last_heartbeat < cutoff (a NULL
\* last_heartbeat compares as unknown and is not selected)
OfflineAgents ==
    {a \in DOMAIN agents : /\ agents[a].status = "active"
                           /\ agents[a].last_heartbeat # NULL
                           /\ agents[a].last_heartbeat < now - OfflineTimeout}

OnlineAgents ==
    {a \in DOMAIN agents : /\ agents[a].status = "active"
                           /\ agents[a].last_heartbeat # NULL
                           /\ agents[a].last_heartbeat >= now - OfflineTimeout}

RECURSIVE AddOfflineAlerts(_, _)
AddOfflineAlerts(table, offline) ==
    IF offline = {} THEN table
    ELSE LET a == CHOOSE x \in offline : TRUE
         IN AddOfflineAlerts(create_alert(table, a, -1, "agent_offline",
                                          NULL, NULL),
                             offline \ {a})

ResolveAlerts_none(table, ids) == table

RECURSIVE ResolveAlerts(_, _)
ResolveAlerts(table, ids) ==
    IF ids = {} THEN table
    ELSE LET i == CHOOSE x \in ids : TRUE
         IN ResolveAlerts(resolve_alert(table, i), ids \ {i})

\* Concurrent check_agent_offline calls: the queries of one sweep, taken at
\* one instant, ...
NewSweep == [pc |-> "new", offline |-> {}, resolve |-> {}]

check_agent_offline_query(s) ==
    /\ sweeps[s].pc = "new"
    /\ sweeps' = [sweeps EXCEPT ![s] =
                     [pc |-> "queried",
                      offline |-> {a \in OfflineAgents :
                                      OfflineAlerts(alerts, a) = {}},
                      resolve |-> UNION {OfflineAlerts(alerts, a) :
                                            a \in OnlineAgents}]]
    /\ UNCHANGED <<agents, now, alerts, checks, thresholds, hist, engineFrame>>

\* ... and, later, its single commit of the added and the resolved rows
check_agent_offline_commit(s) ==
    /\ sweeps[s].pc = "queried"
    /\ alerts' = AddOfflineAlerts(ResolveAlerts(alerts, sweeps[s].resolve),
                                  sweeps[s].offline)
    /\ sweeps' = [sweeps EXCEPT ![s].pc = "done"]
    /\ UNCHANGED <<agents, now, checks, thresholds, hist, engineFrame>>

CheckAgentOffline_no_existing_check(table) ==
    LET added == AddOfflineAlerts(table, OfflineAgents)
    IN ResolveAlerts(added, UNION {OfflineAlerts(added, a) : a \in OnlineAgents})

\* The body of check_agent_offline run in one session without interleaving:
\* the loop over the offline agents adds rows, the loop over the online
\* agents queries the table after these adds (autoflush) and resolves.
CheckAgentOffline(table) ==
    LET added == AddOfflineAlerts(table, {a \in OfflineAgents :
                                            OfflineAlerts(table, a) = {}})
    IN ResolveAlerts(added, UNION {OfflineAlerts(added, a) : a \in OnlineAgents})

\* check_agent_offline run without interleaving
check_agent_offline ==
    /\ alerts' = CheckAgentOffline(alerts)
    /\ UNCHANGED <<agents, now, checks, sweeps, thresholds, hist, engineFrame>>

\* Sweeps run one after the other, beside the clock, heartbeats, the
\* registration of the second agent and decommissioning.
NextSweepSeq ==
    \/ Tick
    \/ \E a \in AgentIds : register_agent(BootstrapCred("T1"), a)
    \/ \E a \in AgentIds : agent_heartbeat(AgentCred(a), a)
    \/ \E a \in AgentIds : decommission_agent(NoCred, a)
    \/ check_agent_offline

InitEngine ==
    /\ checks = [c \in CheckIds |-> NewCheck]
    /\ sweeps = [s \in SweepIds |-> NewSweep]
    /\ thresholds = DefaultThresholds
    /\ hist = << >>

ConcMoistures == {25, 36}

NextAlertConc ==
    \/ Tick
    \/ agent_heartbeat(AgentCred("pi-01"), "pi-01")
    \/ \E c \in CheckIds, m \in ConcMoistures :
          check_reading_query(c, "pi-01", 0, m)
    \/ \E c \in CheckIds : check_reading_commit(c)
    \/ \E s \in SweepIds : check_agent_offline_query(s)
    \/ \E s \in SweepIds : check_agent_offline_commit(s)

NextAlertSeq == \E m \in Moistures : check_reading(m)


(***************************************************************************)
(* The Pi agent: local SQLite buffer (storage.py), sync job (sync.py,      *)
(* scheduler.py).                                                          *)
(***************************************************************************)
MaxReadings == 3     \* rows ever stored in one behaviour
NumSensors == 2      \* collectors read by one read cycle
MaxClock == 2        \* agent clock runs 0..MaxClock
BatchSize == 2       \* batch_size of one upload (100 in scheduler.py)
Retention == 1       \* cleanup_synced_older_than_days, in clock units
MaxCrashes == 1      \* agent process crashes (with restart) per behaviour

NETERR == 0          \* httpx.HTTPError: timeout or transport error, no status

Min(a, b) == IF a <= b THEN a ELSE b

SeqToSet(s) == {s[i] : i \in 1..Len(s)}

\* ORDER BY timestamp ASC; SQLite visits rows of equal timestamp in rowid order
Before(x, y) ==
    \/ x.timestamp < y.timestamp
    \/ x.timestamp = y.timestamp /\ x.id <= y.id

RECURSIVE OrderByTimestamp(_)
OrderByTimestamp(rows) ==
    IF rows = {} THEN << >>
    ELSE LET r == CHOOSE x \in rows : \A y \in rows : Before(x, y)
         IN <<r>> \o OrderByTimestamp(rows \ {r})

\* SELECT * FROM readings WHERE synced = 0 ORDER BY timestamp ASC LIMIT ?
get_unsynced_readings(table, limit) ==
    LET all == OrderByTimestamp({r \in table : ~r.synced})
    IN SubSeq(all, 1, Min(limit, Len(all)))

\* INSERT INTO readings ...; commit.  A read cycle stores k readings.
RECURSIVE store_readings(_, _, _)
store_readings(table, first, k) ==
    IF k = 0 THEN table
    ELSE store_readings(table \cup {[id |-> first, timestamp |-> clock,
                                     synced |-> FALSE]}, first + 1, k - 1)

mark_synced_by_content(table, ids) ==
    LET stamps == {r.timestamp : r \in {x \in table : x.id \in SeqToSet(ids)}}
    IN {IF r.timestamp \in stamps THEN [r EXCEPT !.synced = TRUE] ELSE r :
           r \in table}

mark_synced_toggle(table, ids) ==
    {IF r.id \in SeqToSet(ids) THEN [r EXCEPT !.synced = ~r.synced] ELSE r :
        r \in table}

mark_synced_nothing(table, ids) == table

\* UPDATE readings SET synced = 1 WHERE id IN (...)
mark_synced(table, ids) ==
    {IF r.id \in SeqToSet(ids) THEN [r EXCEPT !.synced = TRUE] ELSE r : r \in table}

\* DELETE FROM readings WHERE synced = 1 AND timestamp < cutoff
cleanup_old_synced_unsynced_too(table, days) ==
    {r \in table : ~(r.timestamp < clock - days)}

cleanup_old_synced_any_age(table, days) == {r \in table : ~r.synced}

cleanup_old_synced(table, days) ==
    {r \in table : ~(r.synced /\ r.timestamp < clock - days)}

SyncResult(synced_count, total_pending) ==
    [outcome |-> "ok", synced_count |-> synced_count, failed_count |-> 0,
     total_pending |-> total_pending]

SyncErrorRaised == [outcome |-> "SyncError", synced_count |-> 0,
                    failed_count |-> 0, total_pending |-> 0]

NoSyncYet == [outcome |-> "none", synced_count |-> 0,
              failed_count |-> 0, total_pending |-> 0]

\* AgentScheduler._read_all_sensors: k of the collectors return a reading
\* (the others fail to read), each is stored and committed.
read_all_sensors(k) ==
    /\ lastrowid + k <= MaxReadings
    /\ readings' = store_readings(readings, lastrowid + 1, k)
    /\ lastrowid' = lastrowid + k
    /\ UNCHANGED <<clock, syncPC, reading_ids, response, lastSync, up, crashes,
                   confirmed, lastFailed, selectedAt>>
    /\ UNCHANGED syncFrame

\* AgentScheduler._cleanup_old_readings
cleanup_old_readings ==
    /\ readings' = cleanup_old_synced(readings, Retention)
    /\ readings' # readings
    /\ UNCHANGED <<lastrowid, clock, syncPC, reading_ids, response, lastSync, up,
                   crashes, confirmed, lastFailed, selectedAt>>
    /\ UNCHANGED syncFrame

AgentTick ==
    /\ clock < MaxClock
    /\ clock' = clock + 1
    /\ UNCHANGED <<readings, lastrowid, syncPC, reading_ids, response, lastSync,
                   up, crashes, confirmed, lastFailed, selectedAt>>
    /\ UNCHANGED syncFrame

\* SyncClient.sync_readings up to the awaited POST
sync_readings_post ==
    /\ syncPC = "idle"
    /\ LET unsynced == get_unsynced_readings(readings, BatchSize)
       IN IF unsynced = << >>
          THEN /\ lastSync' = SyncResult(0, 0)
               /\ UNCHANGED <<syncPC, reading_ids>>
          ELSE /\ reading_ids' = [i \in 1..Len(unsynced) |-> unsynced[i].id]
               /\ syncPC' = "posting"
               /\ UNCHANGED lastSync
    /\ selectedAt' = lastrowid
    /\ UNCHANGED <<readings, lastrowid, clock, response, up, crashes, confirmed,
                   lastFailed>>
    /\ UNCHANGED syncFrame

\* The network and the orchestrator answer the POST.
upload_answered(status) ==
    /\ syncPC = "posting"
    /\ IF up THEN status = 200 ELSE status # 200
    /\ response' = status
    /\ syncPC' = "responded"
    /\ confirmed' = IF status = 200
                    THEN confirmed \cup SeqToSet(reading_ids)
                    ELSE confirmed
    /\ UNCHANGED <<readings, lastrowid, clock, reading_ids, lastSync, up, crashes,
                   lastFailed, selectedAt>>
    /\ UNCHANGED syncFrame

\* response.status_code == 200
UploadSucceeded_any(status) == status # NETERR

UploadSucceeded_created(status) == status = 201

UploadSucceeded(status) == status = 200

\* SyncClient.sync_readings after the awaited POST
sync_readings_finish ==
    /\ syncPC = "responded"
    /\ IF UploadSucceeded(response)
       THEN /\ readings' = mark_synced(readings, reading_ids)
            /\ lastSync' = SyncResult(Len(reading_ids),
                                      Len(get_unsynced_readings(readings', 1)))
            /\ lastFailed' = {}
       ELSE /\ lastSync' = SyncErrorRaised
            /\ lastFailed' = SeqToSet(reading_ids)
            /\ UNCHANGED readings
    /\ syncPC' = "idle"
    /\ reading_ids' = << >>
    /\ response' = NULL
    /\ UNCHANGED <<lastrowid, clock, up, crashes, confirmed, selectedAt>>
    /\ UNCHANGED syncFrame

\* The agent process dies and is restarted: memory is lost, the SQLite file
\* and everything committed to it stays.
Crash ==
    /\ crashes < MaxCrashes
    /\ crashes' = crashes + 1
    /\ syncPC' = "idle"
    /\ reading_ids' = << >>
    /\ response' = NULL
    /\ lastSync' = NoSyncYet
    /\ UNCHANGED <<readings, lastrowid, clock, up, confirmed, lastFailed, selectedAt>>
    /\ UNCHANGED syncFrame

\* The orchestrator becomes unreachable / reachable again.
Outage ==
    /\ up
    /\ up' = FALSE
    /\ UNCHANGED <<readings, lastrowid, clock, syncPC, reading_ids, response,
                   lastSync, crashes, confirmed, lastFailed, selectedAt>>
    /\ UNCHANGED syncFrame

Recovery ==
    /\ ~up
    /\ up' = TRUE
    /\ UNCHANGED <<readings, lastrowid, clock, syncPC, reading_ids, response,
                   lastSync, crashes, confirmed, lastFailed, selectedAt>>
    /\ UNCHANGED syncFrame

FailureStatuses == {500, NETERR}

\* number of rows with synced = 0
UnsyncedCount(table) == Cardinality({r \in table : ~r.synced})

\* SyncClient.sync_all_readings is called: total_synced = 0, the loop begins
sync_all_readings_start ==
    /\ syncAllPC # "calling"
    /\ syncAllPC' = "calling"
    /\ total_synced' = 0
    /\ UNCHANGED <<syncVars, runFrame>>

\* One iteration of "while True" in sync_all_readings: a whole call of
\* sync_readings(batch_size) whose POST, if one is made, is answered with
\* status, then the two break tests.  A SyncError leaves the loop and the
\* function.
sync_all_readings_iteration(status) ==
    /\ syncAllPC = "calling"
    /\ IF up THEN status = 200 ELSE status # 200
    \* each value is computed once: the selection, the table after the call,
    \* what sync_readings returns or raises
    /\ \E unsynced \in {get_unsynced_readings(readings, BatchSize)} :
       \E ids \in {[i \in 1..Len(unsynced) |-> unsynced[i].id]} :
       \E succeeded \in {unsynced # << >> /\ UploadSucceeded(status)} :
       \E failed \in {unsynced # << >> /\ ~UploadSucceeded(status)} :
       \E table \in {IF succeeded THEN mark_synced(readings, ids) ELSE readings} :
       \E result \in {IF unsynced = << >> THEN SyncResult(0, 0)
                      ELSE IF succeeded
                      THEN SyncResult(Len(ids), Len(get_unsynced_readings(table, 1)))
                      ELSE SyncErrorRaised} :
          /\ readings' = table
          /\ lastSync' = result
          /\ confirmed' = IF unsynced # << >> /\ status = 200
                          THEN confirmed \cup SeqToSet(ids) ELSE confirmed
          /\ lastFailed' = IF failed THEN SeqToSet(ids)
                           ELSE IF succeeded THEN {} ELSE lastFailed
          /\ IF failed
             THEN syncAllPC' = "raised" /\ UNCHANGED total_synced
             ELSE /\ total_synced' = total_synced + result.synced_count
                  /\ syncAllPC' = IF result.total_pending = 0 THEN "returned"
                                  ELSE IF result.synced_count = 0 THEN "returned"
                                  ELSE "calling"
    /\ selectedAt' = lastrowid
    /\ UNCHANGED <<lastrowid, clock, syncPC, reading_ids, response, up, crashes>>
    /\ UNCHANGED runFrame

InitRun ==
    /\ syncAllPC = "idle"
    /\ total_synced = 0

\* calls of sync_all_readings on the buffer, with no reading stored while a
\* call is in its loop
NextSyncAll ==
    \/ syncAllPC # "calling" /\ \E k \in 1..NumSensors : read_all_sensors(k)
    \/ cleanup_old_readings
    \/ AgentTick
    \/ sync_all_readings_start
    \/ \E st \in {200} \cup FailureStatuses : sync_all_readings_iteration(st)
    \/ Outage
    \/ Recovery

InitSyncVars ==
    /\ readings = {}
    /\ lastrowid = 0
    /\ clock = 0
    /\ syncPC = "idle"
    /\ reading_ids = << >>
    /\ response = NULL
    /\ lastSync = NoSyncYet
    /\ up = TRUE
    /\ crashes = 0
    /\ confirmed = {}
    /\ lastFailed = {}
    /\ selectedAt = 0

NextSync ==
    \/ \E k \in 1..NumSensors : read_all_sensors(k)
    \/ cleanup_old_readings
    \/ AgentTick
    \/ sync_readings_post
    \/ \E st \in {200} \cup FailureStatuses : upload_answered(st)
    \/ sync_readings_finish
    \/ Crash
    \/ Outage
    \/ Recovery


(***************************************************************************)
(* The Pi agent: config manager (config_manager.py) and the config job of  *)
(* the scheduler, for the agent pi-01.  A pull is answered by              *)
(* get_agent_config for pi-01's own token and id.  The agent has no        *)
(* request to POST /agents/{id}/config/applied, and agent.py builds the    *)
(* scheduler without on_config_applied.                                    *)
(***************************************************************************)
\* request.config of a push: two valid configurations, one that fails
\* AgentConfig(**config_content), and the empty dict
BasePayloads == {"cfgA", "cfgB", "invalid", "empty"}

\* configurations that differ from a valid one in the channel of one sensor
ChannelPayloads == {"ch1", "ch6", "ch7", "ch99"}

Payloads == BasePayloads \cup ChannelPayloads

\* sensors[i].channel of a configuration
SensorChannels(config_content) ==
    CASE config_content = "cfgA" -> <<0>>
      [] config_content = "cfgB" -> <<2, 4>>
      [] config_content = "ch1" -> <<0, 1>>
      [] config_content = "ch6" -> <<6>>
      [] config_content = "ch7" -> <<7, 2>>
      [] config_content = "ch99" -> <<99>>
      [] OTHER -> << >>

\* values a channel field can carry
ChannelValues == ((-1)..8) \cup {99}

\* channel: int = Field(..., ge=0, le=7)
ChannelField(v) == v >= 0 /\ v <= 7

validate_channel_any(v) == TRUE

\* SensorConfig.validate_channel does not raise
validate_channel(v) == v \in {0, 2, 4, 6}

\* SensorConfig(channel=v, ...) with the other fields valid
SensorConfig(v) == ChannelField(v) /\ validate_channel(v)

\* "if config_content": an empty dict is falsy
HasContent(config_content) == config_content # "empty"

ValidConfig_any(config_content) == TRUE

\* AgentConfig(**config_content) does not raise
ValidConfig(config_content) ==
    /\ config_content \notin {"invalid", "empty"}
    /\ \A i \in 1..Len(SensorChannels(config_content)) :
          SensorConfig(SensorChannels(config_content)[i])

AfterFailedWrite_no_restore(backup_content, partial_content) == partial_content

\* The config file after the write raised: open(path, 'w') has truncated it,
\* then "if backup_path.exists(): config_path.write_text(backup_path.read_text())"
\* (the backup was written just before, the config file exists since the
\* agent loaded it at startup).
AfterFailedWrite(backup_content, partial_content) == backup_content

\* pull_config: the response of the orchestrator, or status NETERR when the
\* request fails (httpx.HTTPError)
pull_config(reachable) ==
    IF reachable THEN ConfigResponse("pi-01")
    ELSE [status |-> NETERR, version |-> NULL, config |-> ""]

\* the entry the orchestrator keeps of the pull, if the request arrived
PullAnswered(reachable) ==
    IF reachable
    THEN Response(ConfigResponse("pi-01").status, "pi-01", "pi-01")
    ELSE resp

\* _check_config_updates up to the result of check_for_updates
check_for_updates(reachable) ==
    /\ cfgPC = "idle"
    /\ LET config_data == pull_config(reachable)
           new_version == config_data.version
           config_content == config_data.config
       IN /\ resp' = PullAnswered(reachable)
          /\ IF config_data.status # 200
             THEN \* 304: no update; anything else: ConfigUpdateError, logged
                  UNCHANGED <<current_version, cfgPC>>
             ELSE IF current_version = NULL
             THEN IF HasContent(config_content)
                  THEN cfgPC' = "update" /\ UNCHANGED current_version
                  ELSE /\ current_version' = new_version
                       /\ UNCHANGED cfgPC
             ELSE IF new_version # 0 /\ new_version > current_version
             THEN cfgPC' = "update" /\ UNCHANGED current_version
             ELSE UNCHANGED <<current_version, cfgPC>>
    /\ UNCHANGED <<config_file, backup_file, applyResult, cfgFrame>>

\* apply_config_update and the rest of _check_config_updates: with
\* on_config_applied unset the job only logs "Restart agent to use new config"
apply_config_update(reachable, write_ok) ==
    /\ cfgPC = "update"
    /\ cfgPC' = "idle"
    /\ LET config_data == pull_config(reachable)
           new_version == config_data.version
           config_content == config_data.config
       IN /\ resp' = PullAnswered(reachable)
          /\ IF config_data.status # 200
             THEN \* 304: returns None; anything else: ConfigUpdateError
                  /\ applyResult' = IF config_data.status = 304
                                    THEN "no_update" ELSE "pull_failed"
                  /\ UNCHANGED <<current_version, config_file, backup_file>>
             ELSE IF ~HasContent(config_content)
             THEN /\ applyResult' = "no_update"
                  /\ UNCHANGED <<current_version, config_file, backup_file>>
             ELSE IF ~ValidConfig(config_content)
             THEN \* "Invalid config from orchestrator": ConfigUpdateError
                  /\ applyResult' = "invalid"
                  /\ UNCHANGED <<current_version, config_file, backup_file>>
             ELSE /\ backup_file' = config_file
                  /\ IF write_ok
                     THEN /\ config_file' = config_content
                          /\ current_version' = new_version
                          /\ applyResult' = "updated"
                     ELSE \* restored from the backup just made
                          /\ config_file' = AfterFailedWrite(backup_file', "partial")
                          /\ applyResult' = "write_failed"
                          /\ UNCHANGED current_version
    /\ UNCHANGED cfgFrame

\* The agent process restarts: ConfigManager.__init__ runs again
restart_agent ==
    /\ current_version # NULL \/ cfgPC # "idle"
    /\ current_version' = NULL
    /\ cfgPC' = "idle"
    /\ applyResult' = "none"
    /\ UNCHANGED <<config_file, backup_file, resp, cfgFrame>>

InitCfgVars ==
    /\ current_version = NULL
    /\ config_file = "local"
    /\ backup_file = ""
    /\ cfgPC = "idle"
    /\ applyResult = "none"

NextCfg ==
    \/ \E p \in Payloads : update_agent_config(NoCred, "pi-01", p)
    \/ \E reachable \in BOOLEAN : check_for_updates(reachable)
    \/ \E reachable \in BOOLEAN, write_ok \in BOOLEAN :
          apply_config_update(reachable, write_ok)
    \/ restart_agent


(***************************************************************************)
(* The agent process: PiAgent.run of pi-01.  initialize registers when the *)
(* database holds no agent token, run starts the scheduler and loops over  *)
(* sleep and heartbeat until running is false, and shutdown tears down.    *)
(* The jobs are coroutines of the one event loop that also runs PiAgent:   *)
(* a job is in flight while it is suspended at the await of its request.   *)
(***************************************************************************)
NetworkJobs == {"sync_readings", "check_config"}
LocalJobs == {"read_sensors", "cleanup_readings"}
Jobs == NetworkJobs \cup LocalJobs
Ops == Jobs \cup {"heartbeat"}

\* how one attempt ends: a timeout or a transport error (httpx.HTTPError), a
\* response that is not a success, any other exception
Failures == {"timeout", "transport", "status", "exception"}
OutcomesOf(op) ==
    IF op \in LocalJobs THEN {"ok", "exception"} ELSE {"ok"} \cup Failures

\* SyncError, ConfigUpdateError, RegistrationError: the client's own error
ClientError(op) ==
    CASE op = "sync_readings" -> "SyncError"
      [] op = "check_config" -> "ConfigUpdateError"
      [] op = "heartbeat" -> "RegistrationError"
      [] OTHER -> "Exception"

\* The exception that reaches the caller of the client: the clients turn
\* httpx.HTTPError and a failure status into their own error and let
\* everything else through.
Raised(op, o) ==
    IF o \in {"timeout", "transport", "status"} THEN ClientError(op)
    ELSE IF o = "cancelled" THEN "CancelledError"
    ELSE "Exception"

\* asyncio.CancelledError derives from BaseException, the clients' errors
\* from Exception
IsSubclass(cls, base) ==
    \/ cls = base
    \/ base = "Exception" /\ cls # "CancelledError"

ExceptClause_client_error(op) == ClientError(op)

\* the except clause around each job body and around each heartbeat
ExceptClause(op) == "Exception"

Catches(op, o) == IsSubclass(Raised(op, o), ExceptClause(op))

Handled(op, o) ==
    IF o = "ok" THEN "none" ELSE IF Catches(op, o) THEN "caller" ELSE "escaped"

Ended(op, o) == [op |-> op, result |-> o]

InitLife ==
    /\ running = FALSE
    /\ lifePC = "down"
    /\ agent_token = NoCred
    /\ attempt = 0
    /\ inflight = {}
    /\ cancelled = {}
    /\ closed = << >>
    /\ outcome = Ended("none", "none")
    /\ caughtBy = "none"

\* PiAgent.run up to the main loop.  Without a stored token initialize sends
\* POST /agents/register with the configured bootstrap token and waits.
agent_start ==
    /\ lifePC = "down"
    /\ IF agent_token = NoCred
       THEN /\ \E r \in RegRequests :
                 /\ regs[r].pc = "new"
                 /\ \A q \in RegRequests : regs[q].pc = "new" => r <= q
                 /\ attempt' = r
            /\ lifePC' = "registering"
            /\ UNCHANGED running
       ELSE /\ lifePC' = "loop"
            /\ running' = TRUE
            /\ UNCHANGED attempt
    /\ inflight' = {}
    /\ cancelled' = {}
    /\ closed' = << >>
    /\ outcome' = Ended("none", "none")
    /\ caughtBy' = "none"
    /\ UNCHANGED <<agent_token, lifeFrame>>

\* The response of the registration arrives: _register stores the token of a
\* 200; any other status raises RegistrationError and the process ends.
register_answered ==
    /\ lifePC = "registering"
    /\ regs[attempt].pc = "done"
    /\ IF regs[attempt].status = 200
       THEN /\ agent_token' = AgentCred("pi-01")
            /\ lifePC' = "loop"
            /\ running' = TRUE
       ELSE /\ lifePC' = "down"
            /\ UNCHANGED <<agent_token, running>>
    /\ attempt' = 0
    /\ UNCHANGED <<inflight, cancelled, closed, outcome, caughtBy, lifeFrame>>

\* The request times out, or the process dies before set_metadata: the
\* agent ends without a token, whatever the orchestrator did or will do
\* with the request.
register_lost ==
    /\ lifePC = "registering"
    /\ lifePC' = "down"
    /\ attempt' = 0
    /\ UNCHANGED <<running, agent_token, inflight, cancelled, closed, outcome,
                   caughtBy, lifeFrame>>

\* _signal_handler
signal_handler ==
    /\ lifePC = "loop"
    /\ running
    /\ running' = FALSE
    /\ UNCHANGED <<lifePC, agent_token, attempt, inflight, cancelled, closed,
                   outcome, caughtBy, lifeFrame>>

\* One run of _read_all_sensors or _cleanup_old_readings: no await inside.
local_job(op, o) ==
    /\ lifePC = "loop"
    /\ outcome' = Ended(op, o)
    /\ caughtBy' = Handled(op, o)
    /\ UNCHANGED <<running, lifePC, agent_token, attempt, inflight, cancelled,
                   closed, lifeFrame>>

\* _sync_readings or _check_config_updates starts and suspends at its request
job_start(op) ==
    /\ lifePC = "loop"
    /\ op \notin inflight
    /\ inflight' = inflight \cup {op}
    /\ UNCHANGED <<running, lifePC, agent_token, attempt, cancelled, closed,
                   outcome, caughtBy, lifeFrame>>

\* ... and resumes with the response or the error
job_finish(op, o) ==
    /\ op \in inflight \ cancelled
    /\ inflight' = inflight \ {op}
    /\ outcome' = Ended(op, o)
    /\ caughtBy' = Handled(op, o)
    /\ UNCHANGED <<running, lifePC, agent_token, attempt, cancelled, closed,
                   lifeFrame>>

\* ... or resumes with CancelledError once PiAgent awaits
job_cancelled(op) ==
    /\ op \in cancelled
    /\ Len(closed) >= 2
    /\ inflight' = inflight \ {op}
    /\ cancelled' = cancelled \ {op}
    /\ outcome' = Ended(op, "cancelled")
    /\ caughtBy' = Handled(op, "cancelled")
    /\ UNCHANGED <<running, lifePC, agent_token, attempt, closed, lifeFrame>>

\* One iteration of the main loop: sleep, heartbeat.  An exception that
\* leaves the try around the heartbeat leaves the loop (run re-raises it and
\* runs shutdown in its finally).
heartbeat(o) ==
    /\ lifePC = "loop"
    /\ running
    /\ outcome' = Ended("heartbeat", o)
    /\ caughtBy' = Handled("heartbeat", o)
    /\ lifePC' = IF Handled("heartbeat", o) = "escaped" THEN "shutdown" ELSE "loop"
    /\ UNCHANGED <<running, agent_token, attempt, inflight, cancelled, closed,
                   lifeFrame>>

\* "while self.running" is false: run reaches its finally
loop_exit ==
    /\ lifePC = "loop"
    /\ ~running
    /\ lifePC' = "shutdown"
    /\ UNCHANGED <<running, agent_token, attempt, inflight, cancelled, closed,
                   outcome, caughtBy, lifeFrame>>

\* PiAgent.shutdown, statement by statement
ShutdownOrder ==
    <<"scheduler", "registration_client", "sync_client", "config_manager",
      "storage">>

\* AgentScheduler.shutdown is a plain call made by a coroutine of the event
\* loop on which the jobs run: a job in flight stays suspended while the
\* call runs, so the call cannot wait for it; the executor cancels its task.
CancelledAt(resource, jobs) == IF resource = "scheduler" THEN jobs ELSE {}

shutdown_step ==
    /\ lifePC = "shutdown"
    /\ LET resource == ShutdownOrder[Len(closed) + 1]
       IN /\ closed' = Append(closed, resource)
          /\ cancelled' = cancelled \cup CancelledAt(resource, inflight)
          /\ lifePC' = IF Len(closed') = Len(ShutdownOrder) THEN "down"
                       ELSE "shutdown"
    /\ UNCHANGED <<running, agent_token, attempt, inflight, outcome, caughtBy,
                   lifeFrame>>

\* the agent process from start to shutdown, with a started orchestrator
NextAgent ==
    \/ \E t \in TokenIds, h \in ExpiresInHours, m \in MaxUsesValues :
          create_bootstrap_token(NoCred, t, h, m)
    \/ agent_start
    \/ /\ lifePC = "registering"
       /\ verify_bootstrap_token(attempt, BootstrapCred("T1"), "pi-01")
    \/ \E r \in RegRequests : register_agent_check(r)
    \/ \E r \in RegRequests : register_agent_commit(r)
    \/ register_answered
    \/ register_lost
    \/ signal_handler
    \/ \E op \in LocalJobs : \E o \in OutcomesOf(op) : local_job(op, o)
    \/ \E op \in NetworkJobs : job_start(op)
    \/ \E op \in NetworkJobs : \E o \in OutcomesOf(op) : job_finish(op, o)
    \/ \E op \in NetworkJobs : job_cancelled(op)
    \/ \E o \in OutcomesOf("heartbeat") : heartbeat(o)
    \/ loop_exit
    \/ shutdown_step

(***************************************************************************)
(* Specifications                                                          *)
(***************************************************************************)
\* concurrent registrations against the orchestrator
InitReg == InitCoord /\ InitApi /\ InitRegs /\ InitEngine /\ InitSyncVars /\ InitCfgVars
           /\ InitPushes /\ InitLife /\ InitRun
SpecReg == InitReg /\ [][NextReg]_vars

\* registrations handled one at a time
InitRegSeq == InitCoord /\ InitApi /\ InitRegs /\ InitEngine /\ InitSyncVars /\ InitCfgVars
              /\ InitPushes /\ InitLife /\ InitRun
SpecRegSeq == InitRegSeq /\ [][NextRegSeq]_vars

\* the agent's buffer and sync job
InitSync == InitCoord /\ InitApi /\ InitRegs /\ InitEngine /\ InitSyncVars /\ InitCfgVars
           /\ InitPushes /\ InitLife /\ InitRun
SpecSync == InitSync /\ [][NextSync]_vars

\* the orchestrator endpoints, one request at a time
InitCoordSpec == InitFleet /\ InitApi /\ InitRegs /\ InitEngine /\ InitSyncVars /\ InitCfgVars
    /\ InitPushes /\ InitLife /\ InitRun
SpecCoord == InitCoordSpec /\ [][NextCoord]_vars

\* the alert engine called concurrently, beside heartbeats and the clock
InitAlertConc == InitFleet /\ InitApi /\ InitRegs /\ InitEngine /\ InitSyncVars /\ InitCfgVars
    /\ InitPushes /\ InitLife /\ InitRun
SpecAlertConc == InitAlertConc /\ [][NextAlertConc]_vars

InitSweepSeq == InitAlertConc
SpecSweepSeq == InitSweepSeq /\ [][NextSweepSeq]_vars

\* check_reading called sequentially for one sensor, with any thresholds
InitAlertSeq ==
    /\ InitFleet /\ InitApi /\ InitRegs /\ InitSyncVars /\ InitCfgVars
    /\ InitPushes /\ InitLife /\ InitRun
    /\ checks = [c \in CheckIds |-> NewCheck]
    /\ sweeps = [s \in SweepIds |-> NewSweep]
    /\ thresholds \in ThresholdSets
    /\ hist = << >>
SpecAlertSeq == InitAlertSeq /\ [][NextAlertSeq]_vars

\* POST /rules beside check_reading calls made with the thresholds of the
\* sensor configuration (the defaults)
SensorRuleCreates ==
    {[agent_id |-> "pi-01", sensor_channel |-> 0, dry_threshold |-> 40,
      wet_threshold |-> 60, enabled |-> TRUE]}

NextAlertRule ==
    \/ \E r \in SensorRuleCreates : create_alert_rule(NoCred, r)
    \/ \E m \in Moistures : check_reading(m)

InitAlertRule == InitAlertConc
SpecAlertRule == InitAlertRule /\ [][NextAlertRule]_vars

\* the agent process
InitAgent == InitReg
SpecAgent == InitAgent /\ [][NextAgent]_vars

\* concurrent config pushes by operators
InitPushConc ==
    InitFleet /\ InitApi /\ InitRegs /\ InitEngine /\ InitSyncVars /\ InitCfgVars
    /\ InitPushes /\ InitLife /\ InitRun
SpecPushConc == InitPushConc /\ [][NextPushConc]_vars

\* config pushes by the operator and the config job of pi-01's agent
InitCfg ==
    InitFleet /\ InitApi /\ InitRegs /\ InitEngine /\ InitSyncVars /\ InitCfgVars
    /\ InitPushes /\ InitLife /\ InitRun
SpecCfg == InitCfg /\ [][NextCfg]_vars

\* the same, with the scheduler running the sync job again and again
\* (IntervalTrigger) and every POST ending in a response or an error
\* (bounded timeout)
NextSyncRunning ==
    \/ \E k \in 1..NumSensors : read_all_sensors(k)
    \/ cleanup_old_readings
    \/ AgentTick
    \/ sync_readings_post
    \/ \E st \in {200} \cup FailureStatuses : upload_answered(st)
    \/ sync_readings_finish
    \/ Outage
    \/ Recovery

SpecSyncFair ==
    /\ InitSync
    /\ [][NextSyncRunning]_vars
    /\ WF_vars(sync_readings_post)
    /\ WF_vars(\E st \in {200} \cup FailureStatuses : upload_answered(st))
    /\ WF_vars(sync_readings_finish)

\* calls of sync_all_readings: the coroutine goes on, and every POST ends in
\* a response or an error (the client's timeout)
SpecSyncAll ==
    /\ InitSync
    /\ [][NextSyncAll]_vars
    /\ WF_vars(\E st \in {200} \cup FailureStatuses : sync_all_readings_iteration(st))

\* config pushes and the config job of an agent that stays up, with the
\* orchestrator reachable and a writable config file: the scheduler runs
\* _check_config_updates again and again (IntervalTrigger), and the job goes
\* on to apply_config_update when check_for_updates returned True
NextCfgRunning ==
    \/ \E p \in Payloads : update_agent_config(NoCred, "pi-01", p)
    \/ check_for_updates(TRUE)
    \/ apply_config_update(TRUE, TRUE)

SpecCfgFair ==
    /\ InitCfg
    /\ [][NextCfgRunning]_vars
    /\ WF_vars(check_for_updates(TRUE))
    /\ WF_vars(apply_config_update(TRUE, TRUE))

(***************************************************************************)
(* C1.  For a non-expired bootstrap token with max_uses = N >= 1 presented *)
(* by more than N registration requests with distinct new agent ids,       *)
(* exactly N registrations succeed and all the others get 401, under every *)
(* interleaving of the requests.                                           *)
(***************************************************************************)
\* the requests whose credential matched the stored token t
RegsWith(t) == {r \in RegRequests : regs[r].bootstrap = t}

DistinctAgentIds ==
    \A r1, r2 \in RegRequests :
        (r1 # r2 /\ regs[r1].pc # "new" /\ regs[r2].pc # "new")
            => regs[r1].agent_id # regs[r2].agent_id

C1_ExactlyMaxUsesSucceed ==
    \A t \in DOMAIN bootstrap :
        LET N == bootstrap[t].max_uses
            rs == RegsWith(t)
        IN (/\ N >= 1
            /\ ~is_expired(bootstrap[t])
            /\ Cardinality(rs) > N
            /\ \A r \in rs : regs[r].pc = "done"
            /\ DistinctAgentIds)
           => /\ Cardinality({r \in rs : regs[r].status = 200}) = N
              /\ \A r \in rs : regs[r].status \in {200, 401}


(***************************************************************************)
(* C2.  No stored reading is ever lost: every reading ever stored is still *)
(* in the buffer with synced = false, or was contained in an upload that   *)
(* the orchestrator answered with 200; a row that is confirmed and still   *)
(* unsynced (a crash fell between the 200 response and mark_synced) is     *)
(* only uploaded again.                                                    *)
(***************************************************************************)
C2_NoReadingLost ==
    \A id \in 1..lastrowid :
        \/ \E r \in readings : r.id = id /\ ~r.synced
        \/ id \in confirmed

\* after a crash between the 200 response and mark_synced: the confirmed
\* row is still unsynced and is in the batch of the next upload, while an
\* older synced row has already been purged
C2_Witness ==
    /\ crashes >= 1
    /\ syncPC = "posting"
    /\ \E r \in readings : ~r.synced /\ r.id \in confirmed
                             /\ r.id \in SeqToSet(reading_ids)
    /\ \E id \in 1..lastrowid : \A r \in readings : r.id # id

(***************************************************************************)
(* C3.  A row's synced flag turns true only in the step that handles a 200 *)
(* response to an upload holding that row; handling a non-200 status, a    *)
(* timeout or a transport error raises SyncError and changes and deletes   *)
(* no row, and the rows of the failed batch are what the next sync tick    *)
(* selects.                                                                *)
(***************************************************************************)
C3_FlagStep ==
    /\ \A r \in readings : \A q \in readings' :
          (q.id = r.id /\ ~r.synced /\ q.synced)
             => (syncPC = "responded" /\ response = 200
                 /\ r.id \in SeqToSet(reading_ids))
    /\ (syncPC = "responded" /\ response # 200 /\ crashes' = crashes
        /\ syncPC' = "idle")
          => (lastSync' = SyncErrorRaised /\ readings' = readings)

C3_FailedBatchSelectedAgain ==
    lastFailed # {} =>
        /\ \A id \in lastFailed : \E r \in readings : r.id = id /\ ~r.synced
        /\ LET next == get_unsynced_readings(readings, BatchSize)
           IN lastFailed \subseteq {next[i].id : i \in 1..Len(next)}
        /\ syncPC # "idle" => lastFailed \subseteq SeqToSet(reading_ids)

C3_SyncedOnlyAfter200 == [][C3_FlagStep]_vars /\ []C3_FailedBatchSelectedAgain

C3_Witness ==
    /\ syncPC = "posting"
    /\ lastSync = SyncErrorRaised
    /\ lastFailed # {}
    /\ lastFailed \subseteq SeqToSet(reading_ids)
    /\ lastrowid > Cardinality(lastFailed)

(***************************************************************************)
(* C8.  The sync job can always start again when idle, whatever happened   *)
(* before, and readings can always be stored; once the orchestrator stays  *)
(* reachable and accepts uploads, every unsynced reading of the buffer is  *)
(* eventually marked synced, also while new readings are stored.           *)
(***************************************************************************)
Unsynced(id) == \E r \in readings : r.id = id /\ ~r.synced
Synced(id) == \E r \in readings : r.id = id /\ r.synced

C8_KeepsTrying ==
    /\ syncPC = "idle" => ENABLED sync_readings_post
    /\ lastrowid < MaxReadings => ENABLED read_all_sensors(1)

C8_EventuallySynced ==
    /\ []C8_KeepsTrying
    /\ (<>[]up) => \A id \in 1..MaxReadings : (Unsynced(id) ~> Synced(id))

\* during an outage, after a failed sync: a reading stored after the
\* failed batch waits in the buffer and the sync job can start again
C8_Witness ==
    /\ ~up
    /\ syncPC = "idle"
    /\ lastSync = SyncErrorRaised
    /\ \E r \in readings : ~r.synced /\ lastFailed # {}
                             /\ \A f \in lastFailed : r.id > f
    /\ \E r \in readings : r.synced

(***************************************************************************)
(* C6.  For every agent, applied_config_version never decreases in any     *)
(* step of the orchestrator, and it changes only in a step of              *)
(* report_config_applied (POST /agents/{id}/config/applied?version=N),     *)
(* whatever integer N the authenticated agent passes.                      *)
(***************************************************************************)
C6_AppliedNeverDecreases ==
    [][\A a \in DOMAIN agents :
          /\ a \in DOMAIN agents'
          /\ agents'[a].applied_config_version >= agents[a].applied_config_version
          /\ agents'[a].applied_config_version # agents[a].applied_config_version
                => \E c \in Creds, v \in ReportVersions :
                      report_config_applied(c, a, v)]_vars

(***************************************************************************)
(* C9.  A request that presents neither a valid bootstrap token nor a      *)
(* valid agent token changes no persistent state of the orchestrator,      *)
(* whichever mutating endpoint it calls.                                   *)
(***************************************************************************)
ValidCred(cred) ==
    \/ \E t \in DOMAIN bootstrap : /\ verify_token(cred, bootstrap[t].token_hash)
                                   /\ is_valid(bootstrap[t])
    \/ \E a \in DOMAIN agents : verify_token(cred, agents[a].agent_token_hash)

AgentTokenRequest(cred, agent_id) ==
    \/ agent_heartbeat(cred, agent_id)
    \/ get_agent_config(cred, agent_id)
    \/ \E v \in ReportVersions : report_config_applied(cred, agent_id, v)
    \/ \E b \in UploadBatches, ok \in HealthyInflux :
          upload_readings(cred, agent_id, b, ok)
    \/ report_health(cred, agent_id)

RequestWith(cred) ==
    \/ \E a \in AgentIds : register_agent(cred, a)
    \/ \E a \in AgentIds : AgentTokenRequest(cred, a)
    \/ \E a \in AgentIds, p \in CoordPayloads : update_agent_config(cred, a, p)
    \/ \E a \in AgentIds : decommission_agent(cred, a)
    \/ \E i \in 1..2 : acknowledge_alert(cred, i)
    \/ \E r \in AlertRuleCreates : create_alert_rule(cred, r)

C9_MutationNeedsCredential ==
    [][\A c \in Creds :
          (~ValidCred(c) /\ RequestWith(c))
             => UNCHANGED <<agents, bootstrap, configs, rules, alerts>>]_vars

(***************************************************************************)
(* C10.  A request to an agent-token endpoint (heartbeat, config pull,     *)
(* report applied, readings upload, health report) with the valid token of *)
(* agent A and a path agent id B # A is answered 403 and changes no table; *)
(* and no request with A's token, whatever its path, changes the record of *)
(* another agent.  resp' is the entry of the request a step answers: its    *)
(* agent field is the agent whose token the request presented.             *)
(***************************************************************************)
C10_CrossAgentRejected ==
    [][resp'.agent # "" =>
          /\ resp'.path # resp'.agent
                => /\ resp'.status = 403
                   /\ UNCHANGED <<agents, bootstrap, configs, rules, alerts>>
          /\ \A B \in DOMAIN agents \ {resp'.agent} : agents'[B] = agents[B]]_vars

\* pi-01's token was presented on the path of the registered agent pi-02 and
\* answered 403, after pi-01's own requests had stamped its record.
C10_Witness ==
    /\ resp = Response(403, "pi-01", "pi-02")
    /\ "pi-02" \in DOMAIN agents
    /\ agents["pi-02"].last_heartbeat = NULL
    /\ agents["pi-02"].last_sync_at = NULL
    /\ agents["pi-02"].agent_metadata = NULL
    /\ agents["pi-02"].applied_config_version = 0
    /\ agents["pi-01"].last_heartbeat # NULL
    /\ agents["pi-01"].applied_config_version = 1

(***************************************************************************)
(* C4.  In every reachable state at most one row of active_alerts is       *)
(* unresolved per (agent_id, sensor_channel, alert_type), under any        *)
(* interleaving of concurrent check_reading calls and of concurrent        *)
(* check_agent_offline sweeps.                                             *)
(***************************************************************************)
C4_AtMostOneUnresolved ==
    \A i, j \in 1..Len(alerts) :
        (/\ alerts[i].resolved_at = NULL
         /\ alerts[j].resolved_at = NULL
         /\ alerts[i].agent_id = alerts[j].agent_id
         /\ alerts[i].sensor_channel = alerts[j].sensor_channel
         /\ alerts[i].alert_type = alerts[j].alert_type) => i = j

(***************************************************************************)
(* C5.  With dry = 30, wet = 85, hysteresis = 5 and no prior alert, the    *)
(* readings 35, 25, 32, 36 of one sensor create exactly one too_dry alert  *)
(* (at 25) and resolve it exactly once (at 36, not at 32).  For any        *)
(* thresholds and any sequence of readings of one sensor, an unresolved    *)
(* too_dry alert is resolved by a reading exactly when moisture > dry +    *)
(* hysteresis, an unresolved too_wet alert exactly when moisture < wet -   *)
(* hysteresis, and a resolved alert is never touched again.                *)
(***************************************************************************)
C5_Scenario ==
    thresholds = DefaultThresholds =>
       /\ hist = <<35>> => alerts = << >>
       /\ hist \in {<<35, 25>>, <<35, 25, 32>>} =>
             /\ Len(alerts) = 1
             /\ alerts[1].alert_type = "too_dry"
             /\ alerts[1].moisture_percent = 25
             /\ alerts[1].resolved_at = NULL
       /\ hist = <<35, 25, 32, 36>> =>
             /\ Len(alerts) = 1
             /\ alerts[1].alert_type = "too_dry"
             /\ alerts[1].moisture_percent = 25
             /\ alerts[1].resolved_at # NULL

C5_Step ==
    LET m == hist'[Len(hist')]
        dry == thresholds.dry_percent
        wet == thresholds.wet_percent
        hysteresis == thresholds.hysteresis
    IN \A i \in 1..Len(alerts) :
          /\ i \in 1..Len(alerts')
          /\ alerts[i].resolved_at # NULL => alerts'[i] = alerts[i]
          /\ alerts[i].resolved_at = NULL =>
                (alerts'[i].resolved_at # NULL <=>
                    \/ alerts[i].alert_type = "too_dry" /\ m > dry + hysteresis
                    \/ alerts[i].alert_type = "too_wet" /\ m < wet - hysteresis)

C5_Hysteresis == []C5_Scenario /\ [][C5_Step]_vars

C5_Witness ==
    /\ thresholds = DefaultThresholds
    /\ hist = <<35, 25, 32, 36>>
    /\ Len(alerts) = 1
    /\ alerts[1].alert_type = "too_dry"
    /\ alerts[1].resolved_at # NULL

(***************************************************************************)
(* C7.  Config round trip: when the agent's config job has pulled version  *)
(* V with payload P and applied it to its local config file, the job has   *)
(* reported it, so that the orchestrator holds applied_config_version = V, *)
(* and while no further push has been made a pull is answered 304.         *)
(***************************************************************************)
C7_RoundTrip ==
    \A i \in 1..Len(configs) :
        (/\ cfgPC = "idle"
         /\ configs[i].agent_id = "pi-01"
         /\ configs[i].version = current_version
         /\ configs[i].config_data = config_file)
        => /\ agents["pi-01"].applied_config_version = current_version
           /\ agents["pi-01"].desired_config_version = current_version
                 => ConfigResponse("pi-01").status = 304

(***************************************************************************)
(* C11.  In a sequential execution, once the used_count of a bootstrap     *)
(* token with max_uses >= 1 has reached max_uses, every later              *)
(* POST /agents/register presenting that token is answered 401, creates no *)
(* Agent row and leaves used_count (and every token row) unchanged.        *)
(***************************************************************************)
Exhausted(cred) ==
    \E t \in BootstrapCandidates(cred) :
        /\ bootstrap[t].max_uses >= 1
        /\ bootstrap[t].used_count >= bootstrap[t].max_uses

C12_IsValidIff ==
    \A t \in DOMAIN bootstrap :
        is_valid(bootstrap[t]) <=>
            /\ ~is_expired(bootstrap[t])
            /\ \/ bootstrap[t].max_uses = NULL
               \/ bootstrap[t].used_count < bootstrap[t].max_uses

(***************************************************************************)
(* C13.  POST /agents/register for an agent_id that already has an Agent   *)
(* row, active or decommissioned, changes nothing: no Agent row (token     *)
(* hash included) and no bootstrap token row is modified; with a valid     *)
(* bootstrap token the answer is 409.                                      *)
(***************************************************************************)
PresentsValidBootstrap(cred) ==
    \E t \in BootstrapCandidates(cred) : is_valid(bootstrap[t])

Admitted(r) ==
    regs[r].pc = "done" /\ regs[r].bootstrap # "" /\ regs[r].status # 401

C14_OneWinsOtherConflicts ==
    \A r1, r2 \in RegRequests :
        (/\ r1 # r2
         /\ Admitted(r1) /\ Admitted(r2)
         /\ regs[r1].agent_id = regs[r2].agent_id
         /\ \A r \in RegRequests \ {r1, r2} : regs[r].pc = "new")
        => /\ regs[r1].agent_id \in DOMAIN agents
           /\ {regs[r1].status, regs[r2].status} = {200, 409}
           /\ bootstrap[regs[r1].bootstrap].used_count = 1

(***************************************************************************)
(* C15.  A bootstrap token row is never deleted and its used_count changes *)
(* only by +1 in the commit of a registration that creates an Agent row;   *)
(* every commit that creates an Agent row increments the used_count of the *)
(* presented token; so in every state, under any interleaving, used_count  *)
(* of a token equals the number of Agent rows created with it.             *)
(***************************************************************************)
\* the registrations that created an Agent row presenting token t
CreatedWith(t) ==
    {r \in RegRequests : /\ regs[r].pc = "done"
                         /\ regs[r].status = 200
                         /\ regs[r].bootstrap = t}

C15_CountsRows ==
    \A t \in DOMAIN bootstrap :
        bootstrap[t].used_count = Cardinality(CreatedWith(t))

C15_Step ==
    \A t \in DOMAIN bootstrap :
        /\ t \in DOMAIN bootstrap'
        /\ bootstrap'[t].used_count # bootstrap[t].used_count
              => /\ bootstrap'[t].used_count = bootstrap[t].used_count + 1
                 /\ DOMAIN agents' # DOMAIN agents
        /\ (\E r \in RegRequests : /\ regs[r].bootstrap = t
                                    /\ regs[r].status # 200
                                    /\ regs'[r].status = 200)
              => bootstrap'[t].used_count = bootstrap[t].used_count + 1

C15_UsedCountIsRowCount == []C15_CountsRows /\ [][C15_Step]_vars

(***************************************************************************)
(* C16.  PUT /agents/{id}/config for an existing agent appends exactly one *)
(* AgentConfig row, whose version is the highest existing version of that  *)
(* agent plus one (1 when it has none), and sets desired_config_version to *)
(* that version.  No step of another endpoint (register, heartbeat, pull,  *)
(* report applied, upload, health, decommission, alerts) changes           *)
(* desired_config_version, and it never decreases.                         *)
(***************************************************************************)
\* the highest version among the rows of agent_id, 0 when it has no row
MaxVersion(agent_id) ==
    LET versions == {configs[i].version : i \in
                        {j \in 1..Len(configs) : configs[j].agent_id = agent_id}}
    IN IF versions = {} THEN 0
       ELSE CHOOSE v \in versions : \A w \in versions : w <= v

C16_Step ==
    /\ \A a \in DOMAIN agents, p \in CoordPayloads :
          (resp' = Response(200, "", a) /\ update_agent_config(NoCred, a, p))
             => /\ configs' = Append(configs, [agent_id |-> a,
                                               version |-> MaxVersion(a) + 1,
                                               config_data |-> p,
                                               applied_at |-> NULL])
                /\ agents'[a].desired_config_version = MaxVersion(a) + 1
    /\ \A a \in DOMAIN agents :
          /\ agents'[a].desired_config_version >= agents[a].desired_config_version
          /\ agents'[a].desired_config_version # agents[a].desired_config_version
                => \E p \in CoordPayloads :
                      /\ resp' = Response(200, "", a)
                      /\ update_agent_config(NoCred, a, p)

C16_PushAdvancesDesired == [][C16_Step]_vars

\* two pushes for pi-01 made versions 1 and 2, desired is 2; heartbeats,
\* a report and the decommissioning have left desired alone
C16_Witness ==
    /\ Len(configs) = 2
    /\ configs[1].agent_id = "pi-01" /\ configs[1].version = 1
    /\ configs[2].agent_id = "pi-01" /\ configs[2].version = 2
    /\ agents["pi-01"].desired_config_version = 2
    /\ agents["pi-01"].applied_config_version = 1
    /\ agents["pi-01"].last_heartbeat # NULL
    /\ agents["pi-01"].status = "decommissioned"

(***************************************************************************)
(* C17.  Under any interleaving of concurrent PUT /agents/{id}/config      *)
(* requests for one agent, the AgentConfig rows of an agent carry strictly *)
(* increasing versions in creation order (so no two rows share a version), *)
(* and the version and config_data of an existing row never change.        *)
(***************************************************************************)
C17_StrictlyIncreasing ==
    \A i, j \in 1..Len(configs) :
        (i < j /\ configs[i].agent_id = configs[j].agent_id)
            => configs[i].version < configs[j].version

C17_AppendOnly ==
    \A i \in 1..Len(configs) :
        /\ i \in 1..Len(configs')
        /\ configs'[i].agent_id = configs[i].agent_id
        /\ configs'[i].version = configs[i].version
        /\ configs'[i].config_data = configs[i].config_data

C17_VersionsTotallyOrdered == []C17_StrictlyIncreasing /\ [][C17_AppendOnly]_vars

(***************************************************************************)
(* C18.  GET /agents/{id}/config by the authenticated agent is answered    *)
(* 304 without body exactly when applied_config_version >=                 *)
(* desired_config_version; otherwise 200 with the version and payload of   *)
(* the AgentConfig row at desired_config_version, or, when there is no     *)
(* such row, 200 with the empty configuration; and the request changes no  *)
(* table of the orchestrator.                                              *)
(***************************************************************************)
\* the rows of agent_id at its desired version
DesiredRows(agent_id) ==
    {i \in 1..Len(configs) :
        /\ configs[i].agent_id = agent_id
        /\ configs[i].version = agents[agent_id].desired_config_version}

C18_Answer ==
    \A a \in DOMAIN agents :
        LET answer == ConfigResponse(a)
        IN /\ answer.status \in {200, 304}
           /\ answer.status = 304 <=>
                 agents[a].applied_config_version >= agents[a].desired_config_version
           /\ answer.status = 304 => answer.config = ""
           /\ (answer.status = 200 /\ DesiredRows(a) # {})
                 => \E i \in DesiredRows(a) :
                       /\ answer.version = configs[i].version
                       /\ answer.config = configs[i].config_data
           /\ (answer.status = 200 /\ DesiredRows(a) = {})
                 => answer.config = "empty"

\* a pull with pi-01's token, on its own path or another one (resp' names
\* the token's agent and the path of the request the step answers)
C18_Step ==
    \A a \in AgentIds :
        (/\ resp'.agent = "pi-01"
         /\ resp'.path = a
         /\ get_agent_config(AgentCred("pi-01"), a))
           => /\ UNCHANGED <<agents, bootstrap, configs, rules, alerts>>
              /\ a = "pi-01" => resp'.status = ConfigResponse(a).status

C18_PullConfig == []C18_Answer /\ [][C18_Step]_vars

\* pi-01 reported version 2 while desired is 1 and a row of version 1
\* exists: its pull was answered 304
C18_Witness ==
    /\ resp = Response(304, "pi-01", "pi-01")
    /\ agents["pi-01"].applied_config_version = 2
    /\ agents["pi-01"].desired_config_version = 1
    /\ DesiredRows("pi-01") # {}

(***************************************************************************)
(* C19.  In every reachable state, for every agent,                        *)
(* applied_config_version >= 0, desired_config_version >= 1 and            *)
(* applied_config_version <= desired_config_version, after any sequence of *)
(* registrations, pushes, pulls and reports with any version argument.     *)
(***************************************************************************)
C19_AppliedWithinDesired ==
    \A a \in DOMAIN agents :
        /\ agents[a].applied_config_version >= 0
        /\ agents[a].desired_config_version >= 1
        /\ agents[a].applied_config_version <= agents[a].desired_config_version

(***************************************************************************)
(* C20.  When the payload pulled by apply_config_update fails validation,  *)
(* the call raises ConfigUpdateError before any local mutation: the local  *)
(* config file, the backup file and current_version are unchanged; the     *)
(* config job goes back to idle and can poll again, and the next poll is   *)
(* answered with the same version and flags an update again.               *)
(***************************************************************************)
\* the pull of this call returns a payload that is no valid configuration
InvalidPulled(reachable) ==
    /\ pull_config(reachable).status = 200
    /\ pull_config(reachable).config = "invalid"

\* a poll answered now would return True from check_for_updates
PollFlagsUpdate ==
    LET config_data == ConfigResponse("pi-01")
    IN /\ config_data.status = 200
       /\ IF current_version = NULL
          THEN config_data.config # "empty"
          ELSE config_data.version > current_version

C20_Step ==
    \A reachable \in BOOLEAN, write_ok \in BOOLEAN :
        (InvalidPulled(reachable) /\ apply_config_update(reachable, write_ok))
           => /\ applyResult' = "invalid"
              /\ UNCHANGED <<current_version, config_file, backup_file>>
              /\ cfgPC' = "idle"
              /\ ConfigResponse("pi-01")' = ConfigResponse("pi-01")
              /\ PollFlagsUpdate'

C20_KeepsRunning == cfgPC = "idle" => ENABLED check_for_updates(TRUE)

C20_InvalidConfigDiscarded == []C20_KeepsRunning /\ [][C20_Step]_vars

\* version 1 (cfgA) was applied; the pull of version 2 failed validation:
\* file, backup and current_version are those of version 1
C20_Witness ==
    /\ applyResult = "invalid"
    /\ cfgPC = "idle"
    /\ current_version = 1
    /\ config_file = "cfgA"
    /\ backup_file = "local"
    /\ ConfigResponse("pi-01").version = 2
    /\ ConfigResponse("pi-01").config = "invalid"

(***************************************************************************)
(* C21.  When the write of the new config file fails after the pulled      *)
(* payload passed validation, the file is restored from the backup made    *)
(* just before the write: the local config content equals the content      *)
(* before the update attempt, the backup holds that content too,           *)
(* current_version is unchanged and ConfigUpdateError is raised.           *)
(***************************************************************************)
\* the pull of this call returns a payload that is a valid configuration
ValidPulled(reachable) ==
    /\ pull_config(reachable).status = 200
    /\ pull_config(reachable).config \in {"cfgA", "cfgB"}

C21_Step ==
    \A reachable \in BOOLEAN :
        (ValidPulled(reachable) /\ apply_config_update(reachable, FALSE))
           => /\ config_file' = config_file
              /\ backup_file' = config_file
              /\ current_version' = current_version
              /\ applyResult' = "write_failed"
              /\ cfgPC' = "idle"

C22_Step ==
    (syncPC = "responded" /\ response = 200 /\ syncPC' = "idle"
     /\ crashes' = crashes)
       => /\ \A id \in SeqToSet(reading_ids) : \E r \in readings : r.id = id
          /\ {r.id : r \in readings'} = {r.id : r \in readings}
          /\ \A r \in readings :
                IF r.id \in SeqToSet(reading_ids)
                THEN [r EXCEPT !.synced = TRUE] \in readings'
                ELSE r \in readings'

C22_ExactlyBatchMarked == [][C22_Step]_vars

\* the last sync uploaded a batch of one row, less than the batch size, and
\* found a row pending after marking: that row was stored while the upload
\* was in flight; it has the timestamp of a synced row and is unsynced
C22_Witness ==
    /\ lastSync = SyncResult(1, 1)
    /\ BatchSize > 1
    /\ \E u \in readings, r \in readings :
          /\ ~u.synced /\ r.synced
          /\ u.timestamp = r.timestamp
          /\ u.id > r.id

(***************************************************************************)
(* C23.  A row leaves the buffer only in a step of the retention cleanup,  *)
(* and only if it is synced and its timestamp is older than the retention  *)
(* window; no other step of the read, sync and cleanup jobs (or a crash)   *)
(* removes a row.  So in every reachable state every reading that is no    *)
(* longer in the buffer had been uploaded and confirmed before.            *)
(***************************************************************************)
\* the rows of the buffer whose id is gone after the step
Deleted == {r \in readings : \A q \in readings' : q.id # r.id}

C23_Step ==
    Deleted # {} =>
       /\ \A r \in Deleted : r.synced /\ r.timestamp < clock - Retention
       /\ readings' = readings \ Deleted
       /\ UNCHANGED <<lastrowid, clock, syncPC, reading_ids, response, lastSync,
                      up, crashes>>

C23_NoneDeletedUnsynced ==
    \A id \in 1..lastrowid :
        (\A r \in readings : r.id # id) => id \in confirmed

C23_OnlySyncedOldDeleted == []C23_NoneDeletedUnsynced /\ [][C23_Step]_vars

\* a cleanup has removed a row, while an unsynced row older than the
\* retention window is still there
C23_Witness ==
    /\ \E id \in 1..lastrowid : \A r \in readings : r.id # id
    /\ \E r \in readings : ~r.synced /\ r.timestamp < clock - Retention

(***************************************************************************)
(* C24.  mark_synced is idempotent: on every buffer the program reaches,   *)
(* for every list of ids ever handed out (also ids of purged rows and the  *)
(* empty list), applying it twice equals applying it once, and with ids    *)
(* that are all synced already it leaves the buffer unchanged.  The synced *)
(* flag is monotone: no step turns a synced row back to unsynced.          *)
(***************************************************************************)
\* the ids of S as a list, ascending
RECURSIVE IdSeq(_)
IdSeq(S) ==
    IF S = {} THEN << >>
    ELSE LET id == CHOOSE x \in S : \A y \in S : x <= y
         IN <<id>> \o IdSeq(S \ {id})

C24_Idempotent ==
    \A S \in SUBSET (1..lastrowid) :
        LET ids == IdSeq(S)
            once == mark_synced(readings, ids)
        IN /\ mark_synced(once, ids) = once
           /\ (\A r \in readings : r.id \in S => r.synced) => once = readings

C24_Monotone ==
    \A r \in readings : \A q \in readings' :
        (q.id = r.id /\ r.synced) => q.synced

C24_MarkSyncedIdempotent == []C24_Idempotent /\ [][C24_Monotone]_vars

\* a buffer with a synced row, an unsynced row and a purged id
C24_Witness ==
    /\ \E r \in readings : r.synced
    /\ \E r \in readings : ~r.synced
    /\ \E id \in 1..lastrowid : \A r \in readings : r.id # id
    /\ syncPC = "idle"

(***************************************************************************)
(* C25.  One scheduled run of the sync job uploads batch after batch while *)
(* the preceding batch transferred a row: when a run ends after successful *)
(* uploads and no reading was stored since the run selected its first      *)
(* batch, no unsynced row remains in the buffer, also when the backlog was *)
(* larger than one batch.                                                  *)
(***************************************************************************)
C25_Step ==
    (/\ syncPC = "responded" /\ response = 200
     /\ syncPC' = "idle" /\ crashes' = crashes
     /\ lastrowid = selectedAt)
       => \A r \in readings' : r.synced

C25_RunDrainsBacklog == [][C25_Step]_vars

(***************************************************************************)
(* C26.  Dead zone.  For thresholds with dry + hysteresis < wet -          *)
(* hysteresis, a reading with dry <= moisture <= dry + hysteresis creates  *)
(* no alert and leaves every unresolved too_dry alert unresolved, and a    *)
(* reading with wet - hysteresis <= moisture <= wet creates no alert and   *)
(* leaves every unresolved too_wet alert unresolved.  So after a reading   *)
(* that raised a too_dry (too_wet) alert, readings that stay inside the    *)
(* dry (wet) band leave exactly that one alert, unresolved.                *)
(***************************************************************************)
DeadZone(th) ==
    th.dry_percent + th.hysteresis < th.wet_percent - th.hysteresis

InDryBand(m, th) ==
    th.dry_percent <= m /\ m <= th.dry_percent + th.hysteresis

InWetBand(m, th) ==
    th.wet_percent - th.hysteresis <= m /\ m <= th.wet_percent

C26_Step ==
    LET m == hist'[Len(hist')]
        Untouched(type) ==
            /\ Len(alerts') = Len(alerts)
            /\ \A i \in 1..Len(alerts) :
                  (alerts[i].alert_type = type /\ alerts[i].resolved_at = NULL)
                     => alerts'[i] = alerts[i]
    IN DeadZone(thresholds) =>
          /\ InDryBand(m, thresholds) => Untouched("too_dry")
          /\ InWetBand(m, thresholds) => Untouched("too_wet")

C26_Oscillation ==
    LET OneUnresolved(type) ==
            /\ Len(alerts) = 1
            /\ alerts[1].alert_type = type
            /\ alerts[1].moisture_percent = hist[1]
            /\ alerts[1].resolved_at = NULL
    IN (DeadZone(thresholds) /\ Len(hist) >= 1) =>
          /\ (/\ hist[1] < thresholds.dry_percent
              /\ \A j \in 2..Len(hist) : InDryBand(hist[j], thresholds))
                => OneUnresolved("too_dry")
          /\ (/\ hist[1] > thresholds.wet_percent
              /\ \A j \in 2..Len(hist) : InWetBand(hist[j], thresholds))
                => OneUnresolved("too_wet")

C26_DeadZone == []C26_Oscillation /\ [][C26_Step]_vars

C26_Witness ==
    /\ DeadZone(thresholds)
    /\ hist = <<90, 82, 85, 80>>
    /\ Len(alerts) = 1
    /\ alerts[1].alert_type = "too_wet"
    /\ alerts[1].resolved_at = NULL

(***************************************************************************)
(* C27.  Alert creation rule.  When the (agent, channel) has no unresolved *)
(* alert, check_reading adds exactly one too_dry alert if moisture < dry,  *)
(* otherwise exactly one too_wet alert if moisture > wet, otherwise no     *)
(* alert; with malformed thresholds (dry > wet) and both conditions true   *)
(* the alert is too_dry.  When an unresolved alert exists for the channel, *)
(* check_reading adds no alert.                                            *)
(***************************************************************************)
C27_Step ==
    LET m == hist'[Len(hist')]
        dry == thresholds.dry_percent
        wet == thresholds.wet_percent
        n == Len(alerts)
        Created(type, threshold) ==
            /\ Len(alerts') = n + 1
            /\ \A i \in 1..n : alerts'[i] = alerts[i]
            /\ alerts'[n + 1].agent_id = "pi-01"
            /\ alerts'[n + 1].sensor_channel = 0
            /\ alerts'[n + 1].alert_type = type
            /\ alerts'[n + 1].moisture_percent = m
            /\ alerts'[n + 1].threshold = threshold
            /\ alerts'[n + 1].resolved_at = NULL
    IN IF \E i \in 1..n : /\ alerts[i].agent_id = "pi-01"
                          /\ alerts[i].sensor_channel = 0
                          /\ alerts[i].resolved_at = NULL
       THEN Len(alerts') = n
       ELSE IF m < dry THEN Created("too_dry", dry)
       ELSE IF m > wet THEN Created("too_wet", wet)
       ELSE alerts' = alerts

C27_CreationRule == [][C27_Step]_vars

C27_Witness ==
    /\ thresholds.dry_percent > thresholds.wet_percent
    /\ hist = <<50, 50>>
    /\ Len(alerts) = 1
    /\ alerts[1].alert_type = "too_dry"
    /\ alerts[1].resolved_at = NULL

(***************************************************************************)
(* C28.  When a check_agent_offline sweep has completed, every active      *)
(* agent whose last heartbeat is older than the timeout has exactly one    *)
(* unresolved agent_offline alert, with sensor_channel = -1, and every     *)
(* active agent whose last heartbeat is within the timeout has no          *)
(* unresolved agent_offline alert.                                         *)
(***************************************************************************)
UnresolvedOffline(table, a) ==
    {i \in 1..Len(table) : /\ table[i].agent_id = a
                           /\ table[i].alert_type = "agent_offline"
                           /\ table[i].resolved_at = NULL}

C28_AfterSweep ==
    LET after == CheckAgentOffline(alerts)
    IN \A a \in DOMAIN agents :
          (agents[a].status = "active" /\ agents[a].last_heartbeat # NULL) =>
             IF agents[a].last_heartbeat < now - OfflineTimeout
             THEN /\ Cardinality(UnresolvedOffline(after, a)) = 1
                  /\ \A i \in UnresolvedOffline(after, a) :
                        after[i].sensor_channel = -1
             ELSE UnresolvedOffline(after, a) = {}

C28_Witness ==
    /\ alerts = CheckAgentOffline(alerts)
    /\ \E a, b \in DOMAIN agents :
          /\ agents[a].status = "active" /\ agents[b].status = "active"
          /\ agents[a].last_heartbeat # NULL
          /\ agents[a].last_heartbeat < now - OfflineTimeout
          /\ Cardinality(UnresolvedOffline(alerts, a)) = 1
          /\ agents[b].last_heartbeat >= now - OfflineTimeout
          /\ UnresolvedOffline(alerts, b) = {}
          /\ \E i \in 1..Len(alerts) : /\ alerts[i].agent_id = b
                                        /\ alerts[i].alert_type = "agent_offline"
                                        /\ alerts[i].resolved_at # NULL

(***************************************************************************)
(* C29.  The agent-offline sweep is idempotent: with no heartbeat, status  *)
(* or clock change in between, a second check_agent_offline run leaves the *)
(* ActiveAlert table as the first run left it; it adds no agent_offline    *)
(* alert and resolves none.                                                *)
(***************************************************************************)
C29_SweepIdempotent ==
    LET once == CheckAgentOffline(alerts)
        twice == CheckAgentOffline(once)
    IN /\ twice = once
       /\ Len(twice) = Len(once)
       /\ \A i \in 1..Len(once) : twice[i].resolved_at = once[i].resolved_at

C29_Witness ==
    /\ CheckAgentOffline(alerts) # alerts
    /\ \E i \in 1..Len(alerts) :
          /\ alerts[i].alert_type = "agent_offline"
          /\ alerts[i].resolved_at = NULL
          /\ CheckAgentOffline(alerts)[i].resolved_at # NULL
    /\ \E i \in 1..Len(alerts) :
          /\ alerts[i].resolved_at = NULL
          /\ CheckAgentOffline(alerts)[i].resolved_at = NULL

(***************************************************************************)
(* C30.  Every reading the ingestion endpoint accepts is evaluated by the  *)
(* alert engine: when upload_readings has accepted a reading below the dry *)
(* threshold of its channel while the (agent, channel) had no unresolved   *)
(* alert, an unresolved too_dry alert exists for that (agent, channel).    *)
(* An accepted upload is the only step that writes last_sync_at, and every *)
(* reading of UploadBatches is below the dry threshold.                    *)
(***************************************************************************)
C30_Step ==
    \A a \in DOMAIN agents :
       \A b \in UploadBatches :
          \A k \in 1..Len(b) :
             (/\ resp' = Response(200, a, a)
              /\ a \in DOMAIN agents'
              /\ agents'[a].last_sync_at # agents[a].last_sync_at
              /\ b[k].moisture_percent < DefaultThresholds.dry_percent
              /\ ActiveAlerts(alerts, a, b[k].sensor_channel) = {})
                => \E i \in ActiveAlerts(alerts', a, b[k].sensor_channel) :
                      alerts'[i].alert_type = "too_dry"

C30_AcceptedReadingsEvaluated == [][C30_Step]_vars

(***************************************************************************)
(* C31.  When an AlertRule exists for (agent_id, sensor_channel), the      *)
(* evaluation of a reading of that channel uses the rule's dry_threshold   *)
(* and wet_threshold; without a rule it uses the thresholds of the sensor  *)
(* configuration.  Stated for a reading that arrives while the channel has *)
(* no unresolved alert: a too_dry alert is created exactly when the        *)
(* moisture is below the dry threshold in force, otherwise a too_wet alert *)
(* exactly when it is above the wet threshold in force.                    *)
(***************************************************************************)
RulesFor(agent_id, sensor_channel) ==
    {i \in 1..Len(rules) : /\ rules[i].agent_id = agent_id
                           /\ rules[i].sensor_channel = sensor_channel}

C31_Step ==
    LET m == hist'[Len(hist')]
        rs == RulesFor("pi-01", 0)
        rule == rules[CHOOSE i \in rs : TRUE]
        dry == IF rs # {} THEN rule.dry_threshold ELSE thresholds.dry_percent
        wet == IF rs # {} THEN rule.wet_threshold ELSE thresholds.wet_percent
        CreatedType(type) ==
            /\ Len(alerts') = Len(alerts) + 1
            /\ alerts'[Len(alerts')].alert_type = type
    IN (Len(hist') = Len(hist) + 1 /\ ActiveAlerts(alerts, "pi-01", 0) = {}) =>
          /\ CreatedType("too_dry") <=> m < dry
          /\ CreatedType("too_wet") <=> (~(m < dry) /\ m > wet)

C31_RuleThresholdsUsed == [][C31_Step]_vars

(***************************************************************************)
(* C32.  A timeout, a transport error or a non-success response in a sync, *)
(* config-pull or heartbeat attempt, and any exception in a sensor-read or *)
(* cleanup job, is caught by the caller and does not stop the agent: the   *)
(* main loop and the scheduler keep running, no job is cancelled, and the  *)
(* failed operation can be attempted again.                                *)
(***************************************************************************)
C32_Step ==
    (outcome' # outcome /\ outcome'.result \in Failures) =>
       /\ caughtBy' = "caller"
       /\ lifePC' = lifePC
       /\ running' = running
       /\ closed' = closed
       /\ cancelled' = cancelled
       /\ inflight' \subseteq inflight

C32_CanRetry ==
    (lifePC = "loop" /\ running /\ outcome.result \in Failures) =>
       /\ closed = << >>
       /\ cancelled = {}
       /\ ENABLED heartbeat("ok")
       /\ \A op \in LocalJobs : ENABLED local_job(op, "ok")
       /\ \A op \in NetworkJobs : op \in inflight \/ ENABLED job_start(op)

C32_FailuresCaught == []C32_CanRetry /\ [][C32_Step]_vars

C32_Witness ==
    /\ lifePC = "loop"
    /\ running
    /\ outcome = Ended("sync_readings", "timeout")
    /\ caughtBy = "caller"
    /\ "check_config" \in inflight

(***************************************************************************)
(* C33.  Teardown order.  On shutdown the agent stops the scheduler first, *)
(* waiting for the jobs in flight, then closes the registration, sync and  *)
(* config clients, then the buffer: the resources are closed in this order *)
(* and, from the moment the scheduler has been stopped, no scheduled job   *)
(* is in flight any more, so that none can touch a client or the buffer    *)
(* that is closed afterwards.                                              *)
(***************************************************************************)
C33_StrictTeardown ==
    /\ Len(closed) <= Len(ShutdownOrder)
    /\ \A i \in 1..Len(closed) : closed[i] = ShutdownOrder[i]
    /\ Len(closed) >= 1 => inflight = {}

(***************************************************************************)
(* C34.  Sensor configuration validation accepts a channel if and only if  *)
(* it is one of 0, 2, 4, 6; every other value (1, 3, 5, 7, 99, ...) makes  *)
(* the construction fail.  A pulled configuration that contains such a     *)
(* channel is rejected by apply_config_update before any local mutation:   *)
(* config file, backup file and current_version are unchanged.             *)
(***************************************************************************)
C34_ChannelIff ==
    \A v \in ChannelValues : SensorConfig(v) <=> v \in {0, 2, 4, 6}

\* the pull of this call returns a configuration with a channel outside
\* 0, 2, 4, 6
BadChannelPulled(reachable) ==
    /\ pull_config(reachable).status = 200
    /\ \E i \in 1..Len(SensorChannels(pull_config(reachable).config)) :
          SensorChannels(pull_config(reachable).config)[i] \notin {0, 2, 4, 6}

C34_Step ==
    \A reachable \in BOOLEAN, write_ok \in BOOLEAN :
        (BadChannelPulled(reachable) /\ apply_config_update(reachable, write_ok))
           => /\ applyResult' = "invalid"
              /\ UNCHANGED <<current_version, config_file, backup_file>>

C34_ChannelValidation == []C34_ChannelIff /\ [][C34_Step]_vars

\* version 1 (channel 6) was applied; the pull of version 2, whose second
\* sensor has channel 1, was rejected
C34_Witness ==
    /\ applyResult = "invalid"
    /\ current_version = 1
    /\ config_file = "ch6"
    /\ backup_file = "local"
    /\ ConfigResponse("pi-01").version = 2
    /\ ConfigResponse("pi-01").config = "ch1"


(***************************************************************************)
(* C35.  Every valid configuration pushed by the operator is eventually    *)
(* applied by the polling agent: once the push of version V (the first     *)
(* push, V = 1, made after the agent polled and got the empty fallback,    *)
(* included) is the latest one, with a reachable orchestrator, a fairly    *)
(* scheduled config job and no further push, the agent eventually has the  *)
(* pushed payload in its config file and current_version = V.              *)
(***************************************************************************)
\* version V is the latest push for pi-01 and its payload is valid
LatestValidPush(V) ==
    /\ agents["pi-01"].desired_config_version = V
    /\ ConfigRow("pi-01", V) # 0
    /\ ValidConfig(configs[ConfigRow("pi-01", V)].config_data)

\* the agent has written the payload of version V and tracks version V
AppliedPush(V) ==
    /\ ConfigRow("pi-01", V) # 0
    /\ config_file = configs[ConfigRow("pi-01", V)].config_data
    /\ current_version = V

\* a later push exists
Superseded(V) == \E i \in 1..Len(configs) : configs[i].version > V

C35_PushedEventuallyApplied ==
    \A V \in 1..MaxConfigs :
       LatestValidPush(V) ~> (AppliedPush(V) \/ Superseded(V))

\* the same for the pushes after the first one
C35_LaterPushesApplied ==
    \A V \in 2..MaxConfigs :
       LatestValidPush(V) ~> (AppliedPush(V) \/ Superseded(V))

\* the first push arrives after the agent took the fallback as its baseline
C35_Witness ==
    /\ LatestValidPush(1)
    /\ current_version = 1
    /\ config_file = "local"
    /\ cfgPC = "idle"


(***************************************************************************)
(* C36.  sync_all_readings terminates for every finite buffer when no      *)
(* reading is stored during the run: it returns when no unsynced row       *)
(* remains or when a batch transferred no row, or it raises SyncError on   *)
(* the first failed upload; it does not loop against an orchestrator that  *)
(* rejects every upload, and every iteration whose upload succeeded        *)
(* strictly decreases the number of unsynced rows.                         *)
(***************************************************************************)
C36_Step ==
    (\E st \in {200} \cup FailureStatuses : sync_all_readings_iteration(st)) =>
       /\ syncAllPC' = "returned" =>
             UnsyncedCount(readings') = 0 \/ lastSync'.synced_count = 0
       /\ syncAllPC' = "raised" <=> (~up /\ UnsyncedCount(readings) > 0)
       /\ syncAllPC' = "raised" => readings' = readings
       /\ (up /\ UnsyncedCount(readings) > 0) =>
             UnsyncedCount(readings') < UnsyncedCount(readings)
       /\ syncAllPC' = "calling" =>
             UnsyncedCount(readings') < UnsyncedCount(readings)

C36_SyncAllTerminates ==
    /\ (syncAllPC = "calling") ~> (syncAllPC \in {"returned", "raised"})
    /\ [][C36_Step]_vars

\* a call that needed more than one batch has returned with nothing pending
C36_Witness ==
    /\ syncAllPC = "returned"
    /\ total_synced > BatchSize
    /\ UnsyncedCount(readings) = 0


(***************************************************************************)
(* C37.  Registration is not retry-safe across a lost response.  Once the  *)
(* orchestrator has committed a registration for pi-01 and the agent has   *)
(* not stored the returned token (the request timed out after the commit,  *)
(* or the process died before set_metadata), every later registration      *)
(* request for pi-01 is refused, the use of the bootstrap token stays      *)
(* consumed, and the agent never holds an agent token.                     *)
(* As stated, every later request is answered 409 (C37_LaterRegister409);  *)
(* what holds is that it is answered 409, or 401 when the bootstrap token  *)
(* is exhausted or expired by then, and never 200.                         *)
(***************************************************************************)
\* pi-01 is registered, its agent holds no token and waits for no response
\* that carries one
ResponseLost ==
    /\ "pi-01" \in DOMAIN agents
    /\ agent_token = NoCred
    /\ lifePC = "registering" =>
          ~(regs[attempt].pc = "done" /\ regs[attempt].status = 200)

\* request r, sent after the commit, is answered in this step
LaterAnswered(r) ==
    /\ "pi-01" \in DOMAIN agents
    /\ regs'[r].agent_id = "pi-01"
    /\ regs[r].pc \in {"new", "verified", "checked"}
    /\ regs[r].pc # "new" => regs[r].used_count >= 1
    /\ regs'[r].pc = "done"

\* request r, sent after the commit, has passed verify_bootstrap_token
LaterVerified(r) ==
    /\ "pi-01" \in DOMAIN agents
    /\ regs[r].pc = "new"
    /\ regs'[r].pc = "verified"

C37_Step ==
    /\ \A r \in RegRequests :
          /\ LaterAnswered(r) => regs'[r].status \in {401, 409}
          /\ (LaterAnswered(r) /\ regs'[r].status = 401) =>
                ~is_valid(bootstrap[regs'[r].bootstrap])
          /\ LaterVerified(r) => regs'[r].used_count >= 1
    /\ \A t \in DOMAIN bootstrap :
          /\ t \in DOMAIN bootstrap'
          /\ bootstrap'[t].used_count >= bootstrap[t].used_count
    /\ ResponseLost => ResponseLost'

C37_LostResponseNotRetrySafe == [][C37_Step]_vars

\* the statement as written: every later request is answered 409
C37_LaterRegister409 ==
    [][\A r \in RegRequests : LaterAnswered(r) => regs'[r].status = 409]_vars

\* the agent is down without a token after a committed registration, and its
\* retry was answered 409
C37_Witness ==
    /\ ResponseLost
    /\ lifePC = "down"
    /\ \E r \in RegRequests : regs[r].status = 200
    /\ \E r \in RegRequests : regs[r].pc = "done" /\ regs[r].status = 409
    /\ bootstrap["T1"].used_count = 1


(***************************************************************************)
(* C38.  Decommissioning changes only the status field of the agent.       *)
(* After it verify_agent_token still accepts the agent's token, so the     *)
(* agent's heartbeat, readings upload, health report, config pull and      *)
(* applied report still succeed and still write its record (last_heartbeat,*)
(* last_sync_at, applied_config_version, metadata) as they do for an       *)
(* active agent, and no operation sets the status back to active.          *)
(***************************************************************************)
Decommissioned(a) == a \in DOMAIN agents /\ agents[a].status = "decommissioned"

\* the token of a decommissioned agent authenticates as that agent
C38_TokenAccepted ==
    \A a \in AgentIds :
       Decommissioned(a) =>
          verify_agent_token(AgentCred(a)) = [status |-> 200, agent |-> a]

\* the answer to a request the agent a made with its own token
Answered(a, status) == resp' = Response(status, a, a)

C38_Step ==
    \A a \in AgentIds :
       /\ Decommissioned(a) => Decommissioned(a)'
       \* the steps that answer a request made on the paths of agent a
       /\ (a \in DOMAIN agents /\ resp'.path = a) =>
             /\ decommission_agent(NoCred, a) =>
                   /\ agents' = [agents EXCEPT ![a].status = "decommissioned"]
                   /\ UNCHANGED <<bootstrap, configs, rules, alerts>>
             \* the requests made with the token of a
             /\ (Decommissioned(a) /\ AgentCred(a) \in Creds) =>
                   /\ agent_heartbeat(AgentCred(a), a) =>
                         /\ Answered(a, 200)
                         /\ agents' = [agents EXCEPT ![a].last_heartbeat = now]
                   /\ \A b \in UploadBatches \ {<< >>} :
                         upload_readings(AgentCred(a), a, b, TRUE) =>
                            /\ Answered(a, 200)
                            /\ agents' = [agents EXCEPT ![a].last_sync_at = now]
                   /\ report_health(AgentCred(a), a) =>
                         /\ Answered(a, 200)
                         /\ agents[a].agent_metadata = NULL =>
                               agents' = [agents EXCEPT ![a].agent_metadata = now]
                   /\ get_agent_config(AgentCred(a), a) =>
                         Answered(a, 200) \/ Answered(a, 304)
                   /\ \A v \in ReportVersions :
                         report_config_applied(AgentCred(a), a, v) =>
                            /\ Answered(a, 200)
                            /\ agents' = [agents EXCEPT
                                             ![a].applied_config_version = v]

C39_NeverSeenNoAlert ==
    \A a \in DOMAIN agents :
       agents[a].last_heartbeat = NULL =>
          \A i \in 1..Len(alerts) :
             ~(alerts[i].agent_id = a /\ alerts[i].alert_type = "agent_offline")

\* every row a step adds or changes belongs to an active agent that has
\* sent a heartbeat
C39_Step ==
    /\ Len(alerts') >= Len(alerts)
    /\ \A i \in 1..Len(alerts') :
          (i > Len(alerts) \/ alerts'[i] # alerts[i]) =>
             /\ alerts'[i].agent_id \in DOMAIN agents
             /\ agents[alerts'[i].agent_id].status = "active"
             /\ agents[alerts'[i].agent_id].last_heartbeat # NULL
    /\ \A i \in 1..Len(alerts) :
          (/\ alerts[i].alert_type = "agent_offline"
           /\ alerts[i].resolved_at = NULL
           /\ agents[alerts[i].agent_id].status = "decommissioned") =>
             alerts'[i].resolved_at = NULL

C39_SweepOnlyActiveSeen == []C39_NeverSeenNoAlert /\ [][C39_Step]_vars

\* At the latest time one agent has been silent since its registration and
\* has no alert, another one got an alert, was decommissioned, has sent a
\* heartbeat since, and a sweep leaves its alert unresolved.
C39_Witness ==
    /\ now = MaxTime
    /\ \E a, b \in DOMAIN agents :
          /\ agents[a].status = "active"
          /\ agents[a].last_heartbeat = NULL
          /\ agents[b].status = "decommissioned"
          /\ agents[b].last_heartbeat >= now - OfflineTimeout
          /\ UnresolvedOffline(alerts, b) # {}
          /\ UnresolvedOffline(CheckAgentOffline(alerts), b) # {}
          /\ UnresolvedOffline(CheckAgentOffline(alerts), a) = {}


(***************************************************************************)
(* C40.  In a sequential execution of check_reading calls at most one      *)
(* moisture alert is unresolved per (agent_id, sensor_channel), whatever   *)
(* its type: too_dry and too_wet are never unresolved together for one     *)
(* channel.  One check_reading call changes at most one ActiveAlert row:   *)
(* a reading that resolves an alert creates none in the same call, so      *)
(* going from too_dry to too_wet takes at least two readings.              *)
(***************************************************************************)
\* the unresolved moisture alerts of pi-01's sensor 0
UnresolvedMoisture(table) ==
    {i \in 1..Len(table) : /\ table[i].agent_id = "pi-01"
                           /\ table[i].sensor_channel = 0
                           /\ table[i].alert_type \in {"too_dry", "too_wet"}
                           /\ table[i].resolved_at = NULL}

C40_OneUnresolved == Cardinality(UnresolvedMoisture(alerts)) <= 1

\* the rows of the table after the call that it added or changed
ChangedRows ==
    {i \in 1..Len(alerts') : i > Len(alerts) \/ alerts'[i] # alerts[i]}

C40_Step ==
    /\ Len(alerts') >= Len(alerts)
    /\ Cardinality(ChangedRows) <= 1
    /\ (\E i \in 1..Len(alerts) : alerts[i].resolved_at = NULL
                                  /\ alerts'[i].resolved_at # NULL)
          => Len(alerts') = Len(alerts)
    /\ \A i \in UnresolvedMoisture(alerts) :
          \A j \in UnresolvedMoisture(alerts') :
             alerts'[j].alert_type = alerts[i].alert_type

C40_OneRowPerReading == []C40_OneUnresolved /\ [][C40_Step]_vars

\* too_dry was created by one reading, resolved by a second that is above
\* the wet threshold, and too_wet created by a third
C40_Witness ==
    /\ Len(hist) = 3
    /\ hist[2] > thresholds.wet_percent
    /\ hist[2] > thresholds.dry_percent + thresholds.hysteresis
    /\ Len(alerts) = 2
    /\ alerts[1].alert_type = "too_dry"
    /\ alerts[1].resolved_at # NULL
    /\ alerts[2].alert_type = "too_wet"
    /\ alerts[2].resolved_at = NULL

============================================================================
